---- MODULE Spec2Model ----
(***************************************************************************)
(* Scan lifecycle of Serverless-HostScanner: a scan S, and the scan P that  *)
(* the same database held before it, handled by the orchestrator           *)
(* (start_scan), the scanner function (CheckTargets.run), the Celery       *)
(* watcher (watch_scan), the webhook (scan_hook) and the two WebSocket     *)
(* handlers, which share the MySQL scans, targets and findings rows and    *)
(* the Redis keys and channels of S.  Requests come from two users and     *)
(* carry target lists as they are submitted.  An action is one database    *)
(* transaction, one Redis command, one local step of the handler it is     *)
(* named after, or a run of such steps that no other component can observe *)
(* apart.  Time is a clock that may advance between any two steps.         *)
(***************************************************************************)
EXTENDS Integers, Sequences, FiniteSets, TLC

\* ---------------------------------------------------------------- bounds
\* seconds that pass in one step of the clock
TickSeconds == 60
\* number of clock steps in a behaviour
MaxTicks == 4
\* number of output lines the scanner stores and publishes during nmap
MaxLines == 1
\* number of times the callback of the scanner function is delivered
MaxHooks == 1
\* number of times the function platform repeats a delivered callback
MaxRedeliveries == 1
\* number of nmap progress values published before the scan ends
MaxProgress == 1
\* number of targets in a request to the normalizer
MaxTargets == 2
\* number of unread messages at which other publishers stop publishing
MaxInbox == 2
\* number of messages a long output publishes beyond the capacity of
\* sent_messages
MaxOverflow == 2

\* ------------------------------------------------------- program constants
\* inactivity threshold of the watcher, in seconds
InactivityTimeout == 120
\* websocket_scan: the size above which sent_messages is cut down, and the
\* number of payloads the cut keeps
SentCapacity == 5000
SentKept == 2000

\* None of Python, for timestamps (which are natural numbers otherwise)
NoTime == 0 - 1
\* None of Python / missing Redis key, for status strings
None == "None"
\* a column or key that holds a text or a blob: Null when it holds nothing,
\* Some(v) when it holds v
Null == <<>>
Some(v) == <<v>>
Val(x) == x[1]

MaxTime == MaxTicks * TickSeconds

\* ScanStatus
PENDING == "pending"
RUNNING == "running"
COMPLETED == "completed"
FAILED == "failed"
ScanStatus == {PENDING, RUNNING, COMPLETED, FAILED}
Terminal == {COMPLETED, FAILED}

\* ----------------------------------------------------------------- values
\* output lines, each a sequence of characters
StartingLine == <<"S", "t">>
CompletionLine == <<"o", "k">>
ErrorLine == <<"e", "r", "r">>
\* the i-th line of nmap that is shown to the user; seen_lines keeps the
\* stored lines distinct
NmapLine(i) == [j \in 1..i |-> "n"]

\* the i-th line of an output of many distinct lines: one character, of code i
DistinctLine(i) == <<i>>

\* a target or host name is a string, written as the sequence of its parts:
\* a scheme, "/" and the parts between them; <<>> is the empty string
IpA == <<"1.2.3.4">>
IpB == <<"5.6.7.8">>
NameB == <<"b.example">>
UrlB == <<"https://", "b.example", "/">>
PrivateIp == <<"10.0.0.1">>

\* host records the scanner can report: ip_address and hostname, <<>> when
\* the scanner has none
HostA == [ip_address |-> IpA, hostname |-> <<>>]
HostB == [ip_address |-> IpB, hostname |-> NameB]
HostNameless == [ip_address |-> <<>>, hostname |-> <<>>]
\* result lists (scan_results) a run can produce
ResultLists == { <<>>, <<HostA>>, <<HostNameless, HostB>> }

\* json.dumps / json.loads: a JSON text is the tagged value it encodes
JsonDumps(v) == [json |-> v]
JsonLoads(t) == t.json
\* the JSON text 5: json.loads returns an int
JsonNumberText == [json_number |-> 5]

\* "\n".join(lines)
RECURSIVE JoinLines(_)
JoinLines(lines) ==
  IF Len(lines) = 0 THEN <<>>
  ELSE IF Len(lines) = 1 THEN lines[1]
  ELSE lines[1] \o <<"\n">> \o JoinLines(Tail(lines))

\* ------------------------------------------------------ clean_target_list
\* target.startswith("http://") or target.startswith("https://")
Schemes == {"http://", "https://"}
StartsWithScheme(target) == Len(target) > 0 /\ target[1] \in Schemes

\* urlparse(target): netloc is what stands between the scheme and the next
\* "/", path is the rest
RECURSIVE Netloc(_)
Netloc(rest) ==
  IF rest = <<>> \/ Head(rest) = "/" THEN <<>> ELSE <<Head(rest)>> \o Netloc(Tail(rest))
UrlPath(rest) == SubSeq(rest, Len(Netloc(rest)) + 1, Len(rest))
NetlocOrPath(target) ==
  IF Netloc(Tail(target)) # <<>> THEN Netloc(Tail(target)) ELSE UrlPath(Tail(target))

\* target.rstrip("/")
RECURSIVE RStripSlash(_)
RStripSlash(target) ==
  IF target # <<>> /\ target[Len(target)] = "/"
    THEN RStripSlash(SubSeq(target, 1, Len(target) - 1))
    ELSE target

\* the tokens that are four groups of digits with dots between them, with
\* the numbers they hold; 999.1.1.1 is such a token and no address
Octets ==
  ("1.2.3.4" :> <<1, 2, 3, 4>>) @@ ("5.6.7.8" :> <<5, 6, 7, 8>>)
  @@ ("8.8.8.0" :> <<8, 8, 8, 0>>) @@ ("8.8.8.8" :> <<8, 8, 8, 8>>)
  @@ ("10.0.0.0" :> <<10, 0, 0, 0>>) @@ ("10.0.0.1" :> <<10, 0, 0, 1>>)
  @@ ("11.0.0.1" :> <<11, 0, 0, 1>>) @@ ("192.168.1.1" :> <<192, 168, 1, 1>>)
  @@ ("999.1.1.1" :> <<999, 1, 1, 1>>)
\* the tokens that are one group of digits
Numbers == ("7" :> 7) @@ ("8" :> 8) @@ ("20" :> 20) @@ ("24" :> 24) @@ ("300" :> 300)
\* tokens of two or three groups of digits
PartialQuads == {"0.20"}

\* networks of the table of private networks of ipaddress
PrivateNetworks ==
  { [base |-> <<10, 0, 0, 0>>, prefix |-> 8],
    [base |-> <<127, 0, 0, 0>>, prefix |-> 8],
    [base |-> <<169, 254, 0, 0>>, prefix |-> 16],
    [base |-> <<172, 16, 0, 0>>, prefix |-> 12],
    [base |-> <<192, 168, 0, 0>>, prefix |-> 16] }
\* the number of bits of octet k that a prefix covers
PrefixBits(k, prefix) ==
  IF prefix >= 8 * k THEN 8 ELSE IF prefix <= 8 * (k - 1) THEN 0 ELSE prefix - 8 * (k - 1)
HostSize(k, prefix) == 2 ^ (8 - PrefixBits(k, prefix))
NetworkAddress(octets, prefix) ==
  [k \in 1..4 |-> octets[k] - (octets[k] % HostSize(k, prefix))]
BroadcastAddress(octets, prefix) ==
  [k \in 1..4 |-> NetworkAddress(octets, prefix)[k] + HostSize(k, prefix) - 1]
InNetwork(octets, network) == NetworkAddress(octets, network.prefix) = network.base
\* IPv4Address.is_private
AddressIsPrivate(octets) == \E network \in PrivateNetworks : InNetwork(octets, network)
\* IPv4Network.is_private: first and last address lie in one private network
NetworkIsPrivate(octets, prefix) ==
  \E network \in PrivateNetworks :
    /\ InNetwork(NetworkAddress(octets, prefix), network)
    /\ InNetwork(BroadcastAddress(octets, prefix), network)

\* ipaddress.ip_address(token) does not raise ValueError
ValidAddress(token) ==
  token \in DOMAIN Octets /\ \A k \in 1..4 : Octets[token][k] <= 255
IsIpAddress(target) == Len(target) = 1 /\ ValidAddress(target[1])
is_private_ip(target) == IsIpAddress(target) /\ AddressIsPrivate(Octets[target[1]])

\* ipaddress.ip_network(target, strict=False) does not raise ValueError: an
\* address, or an address, "/" and a prefix length
IsNetwork(target) ==
  \/ IsIpAddress(target)
  \/ /\ Len(target) = 3
     /\ ValidAddress(target[1])
     /\ target[2] = "/"
     /\ target[3] \in DOMAIN Numbers /\ Numbers[target[3]] <= 32
PrefixOf(target) == IF Len(target) = 1 THEN 32 ELSE Numbers[target[3]]
\* network.is_private of the CIDR test
IsPrivateNetwork(target) ==
  IsNetwork(target) /\ NetworkIsPrivate(Octets[target[1]], PrefixOf(target))

\* ip_range_pattern.match(target)
MatchesRange(target) ==
  /\ Len(target) = 3
  /\ target[1] \in DOMAIN Octets
  /\ target[2] = "-"
  /\ target[3] \in DOMAIN Octets \cup DOMAIN Numbers \cup PartialQuads
\* end_ip: a suffix without dot replaces the last number of start_ip
EndValid(target) ==
  IF target[3] \in DOMAIN Numbers THEN Numbers[target[3]] <= 255
  ELSE ValidAddress(target[3])
EndOctets(target) ==
  IF target[3] \in DOMAIN Numbers
    THEN [Octets[target[1]] EXCEPT ![4] = Numbers[target[3]]]
    ELSE Octets[target[3]]
\* a range whose start is private
StartIsPrivate(target) == AddressIsPrivate(Octets[target[1]])
\* the test of the range reads the start only
IsPrivateRange_StartOnly(target) ==
  MatchesRange(target) /\ ValidAddress(target[1]) /\ StartIsPrivate(target)

\* the range test: ip_address(start_ip).is_private or
\* ip_address(end_ip).is_private, a ValueError of either is passed over
IsPrivateRange(target) ==
  /\ MatchesRange(target)
  /\ ValidAddress(target[1])
  /\ \/ StartIsPrivate(target)
     \/ EndValid(target) /\ AddressIsPrivate(EndOctets(target))

\* one pass of the loop up to the tests: scheme removed, slashes stripped
NormalizeTarget(target) ==
  RStripSlash(IF StartsWithScheme(target) THEN NetlocOrPath(target) ELSE target)

\* the tests of one pass: the target is appended to cleaned
Kept(target) ==
  /\ target # <<>>
  /\ ~IsPrivateNetwork(target)
  /\ ~IsPrivateRange(target)
  /\ ~is_private_ip(target)

\* list(set(cleaned)), as the set of its elements
clean_target_list(request_targets) ==
  { t \in { NormalizeTarget(request_targets[i]) : i \in 1..Len(request_targets) } :
      Kept(t) }
\* list(set(cleaned)): the lists the conversion can give; a set has no
\* order of its own
ListOfSet(elements) ==
  { l \in [1..Cardinality(elements) -> elements] :
      \A i, j \in 1..Cardinality(elements) : l[i] = l[j] => i = j }

\* ------------------------------------------------------------- requests
\* db_user.id of the users that send requests
Users == {"u1", "u2"}
\* the targets of a request: a plain address; a URL, its host name twice
\* and an empty string; a private address
ListPlain == <<IpA>>
ListUrl == <<UrlB, NameB, NameB, <<>> >>
ListPrivate == <<PrivateIp>>
TargetLists == {ListPlain, ListUrl, ListPrivate}
Requests == [user : Users, targets : TargetLists]
PlainRequest == [user |-> "u1", targets |-> ListPlain]
NoRequest == [user |-> None, targets |-> <<>>]

\* float(data): the payloads on the progress channel that parse as a number
IsNumeric(data) == data \in {"2", "50", "100"}

VARIABLES
  now,                \* wall clock, seconds
  \* --- MySQL
  scan_exists,        \* the scans row of S exists
  scan,               \* the committed scans row: status, started_at, finished_at, output, result
  findings,           \* committed findings rows, in insertion order
  targets,            \* committed targets rows; the id of a row is its index
  prev_exists,        \* the scans row of P, the scan before S, exists
  prev,               \* the committed scans row of P
  prev_kv,            \* scan:{P} .status and scan_progress:{P}
  \* --- Redis keys
  kv_status,          \* scan:{S} .status, None when the key is missing
  kv_results,         \* scan_results:{S}, None when missing
  kv_output,          \* list scan_output:{S}
  kv_progress,        \* scan_progress:{S}, None when missing
  \* --- Redis channels
  status_chan,        \* every message published on {S}:status, in order
  w_inbox,            \* messages on {S}:progress not yet read by the watcher
  \* --- start_scan
  o_pc,
  o_req,              \* the request: the user and the submitted targets
  o_payload,          \* payload["targets"], the list the normalizer returned
  o_names,            \* get_or_create_targets: the names still to handle
  o_name,             \* get_or_create_targets: the name that was not found
  o_inserted,         \* get_or_create_targets: ids of the targets collected
  o_response,         \* what the handler returned, Null while it runs
  submitted,          \* the requests received so far, in order
  \* --- CheckTargets.run
  s_pc, s_lines, s_progress,
  s_stored,           \* the messages given to _store_and_publish_message, in order
  \* --- scan_hook
  hooks,              \* requests to POST /api/scans/hook so far
  hook_body,          \* the body of the latest request
  hook_response,      \* the response to the latest request
  \* --- watch_scan
  w_pc, last_status, last_message_time, current_status,
  started_at_iso, finished_at_iso,
  db2_output, db2_result,   \* uncommitted changes of session db2
  db2_targets,              \* names of the targets added in session db2
  w_exit,                   \* how the watcher left its loop
  \* --- websocket_scan, one connection to /ws/{S}
  g_pc, g_inbox,            \* messages of the three channels not yet read
  sent_messages,            \* the set of output payloads already sent
  g_frames,                 \* frames sent to the client, in order
  g_client,                 \* the user who has opened the connection
  \* --- websocket_scans, one connection to /ws?keycloak_uuid=
  l_conn,                   \* the user who has opened the connection and the
                            \* keycloak_uuid of the request
  l_frames,                 \* frames sent in the latest pass of the loop
  \* --- process_scan_results, the loop over the ports of one host
  c_pc,
  c_ports,                  \* host.get('ports') of the host
  c_now,                    \* datetime.utcnow() in classify_script, in days
  c_findings,               \* the port and script findings added, in order
  c_host,                   \* the host record of which the findings are made
  \* --- DELETE /api/scans/{uuid} and POST /api/scans/bulk-delete
  d_request,                \* the latest request: the user and the uuids
  d_response                \* and its response

dbvars == <<scan_exists, scan, findings, targets, prev_exists, prev>>
kvvars == <<kv_status, kv_results, kv_output, kv_progress, prev_kv>>
chanvars == <<status_chan, w_inbox>>
ovars == <<o_pc, o_req, o_payload, o_names, o_name, o_inserted, o_response, submitted>>
svars == <<s_pc, s_lines, s_progress, s_stored>>
wvars == <<w_pc, last_status, last_message_time, current_status,
           started_at_iso, finished_at_iso, db2_output, db2_result, db2_targets, w_exit>>
gvars == <<g_pc, g_inbox, sent_messages, g_frames, g_client>>
lvars == <<l_conn, l_frames>>
cvars == <<c_pc, c_ports, c_now, c_findings, c_host>>
hvars == <<hooks, hook_body, hook_response>>
dvars == <<d_request, d_response>>
vars == <<now, dbvars, kvvars, chanvars, ovars, svars, hvars, wvars, gvars, lvars, cvars,
          dvars>>

\* the keys of a scan that has none, and no connection to /ws
NoKeys == [status |-> None, progress |-> None]
NoConnection == [client |-> None, keycloak_uuid |-> None]

\* no delete was requested
NoDelete == [kind |-> None, user |-> None, uuids |-> {}]

\* no host record has been handed over
NoHost == [ip_address |-> <<>>, hostname |-> <<>>, os_info |-> <<>>, traceroute |-> <<>>]

NewScan == [status |-> PENDING, started_at |-> NoTime, finished_at |-> NoTime,
            output |-> Null, result |-> Null, user_id |-> None, targets |-> {}]

Init ==
  /\ now = 0
  /\ scan_exists = FALSE
  /\ scan = NewScan
  /\ findings = <<>>
  /\ targets = <<>>
  /\ prev_exists = FALSE /\ prev = NewScan
  /\ kv_status = None /\ kv_results = Null /\ kv_output = <<>> /\ kv_progress = None
  /\ prev_kv = NoKeys
  /\ status_chan = <<>> /\ w_inbox = <<>>
  /\ o_pc = "idle" /\ o_req = NoRequest /\ o_payload = <<>>
  /\ o_names = {} /\ o_name = <<>>
  /\ o_inserted = {} /\ o_response = Null /\ submitted = <<>>
  /\ s_pc = "idle" /\ s_lines = 0 /\ s_progress = 0 /\ s_stored = <<>>
  /\ hooks = 0 /\ hook_body = Null /\ hook_response = Null
  /\ w_pc = "idle" /\ last_status = None /\ last_message_time = 0
  /\ current_status = None /\ started_at_iso = NoTime /\ finished_at_iso = NoTime
  /\ db2_output = Null /\ db2_result = Null /\ db2_targets = <<>> /\ w_exit = None
  /\ g_pc = "closed" /\ g_inbox = <<>> /\ sent_messages = {} /\ g_frames = <<>>
  /\ g_client = None
  /\ l_conn = NoConnection /\ l_frames = <<>>
  /\ c_pc = "idle" /\ c_ports = <<>> /\ c_now = 0 /\ c_findings = <<>>
  /\ c_host = NoHost
  /\ d_request = NoDelete /\ d_response = Null

\* the channels of S
OutputChannel == "S"
ProgressChannel == "S:progress"
StatusChannel == "S:status"

\* a subscriber that is listening receives the message
WatcherSubscribed == w_pc \notin {"idle", "queued", "done"}
GatewaySubscribed == g_pc = "open"
ToGateway(channel, data) ==
  g_inbox' = IF GatewaySubscribed
               THEN Append(g_inbox, [channel |-> channel, data |-> data])
               ELSE g_inbox
PublishProgress(data) ==
  /\ w_inbox' = IF WatcherSubscribed THEN Append(w_inbox, data) ELSE w_inbox
  /\ ToGateway(ProgressChannel, data)
PublishStatus(message) ==
  /\ status_chan' = Append(status_chan, message)
  /\ ToGateway(StatusChannel, JsonDumps(message))

\* ------------------------------------------------------------- the clock
Tick ==
  /\ now < MaxTime
  /\ now' = now + TickSeconds
  /\ UNCHANGED <<dbvars, kvvars, chanvars, ovars, svars, hvars, wvars, gvars, lvars, cvars,
                 dvars>>

\* ------------------------------------------------------------ start_scan
\* the request arrives; get_or_create_targets starts with the distinct
\* non-empty strings of request.targets
TargetNames(request_targets) ==
  { request_targets[i] : i \in 1..Len(request_targets) } \ {<<>>}
StartScan(requests) ==
  /\ o_pc = "idle"
  /\ \E req \in requests :
       /\ o_req' = req
       /\ o_payload' \in ListOfSet(clean_target_list(req.targets))
       /\ o_names' = TargetNames(req.targets)
       /\ submitted' = Append(submitted, req)
  /\ o_pc' = "targets"
  /\ UNCHANGED <<now, dbvars, kvvars, chanvars, o_name, o_inserted, o_response, svars,
                 hvars, wvars, gvars, lvars, cvars, dvars>>

\* the handler has returned and the next request arrives
StartNextScan(requests) ==
  /\ o_pc = "done" /\ Len(submitted) = 1
  /\ \E req \in requests :
       /\ o_req' = req
       /\ o_payload' \in ListOfSet(clean_target_list(req.targets))
       /\ o_names' = TargetNames(req.targets)
       /\ submitted' = Append(submitted, req)
  /\ o_inserted' = {}
  /\ o_response' = Null
  /\ o_pc' = "targets"
  /\ UNCHANGED <<now, dbvars, kvvars, chanvars, o_name, svars, hvars, wvars, gvars, lvars,
                 cvars, dvars>>

\* a query by name alone
FindTarget_AnyUser(table, user_id, name) ==
  IF \E i \in 1..Len(table) : table[i].name = name
    THEN CHOOSE i \in 1..Len(table) :
           /\ table[i].name = name
           /\ \A j \in 1..(i - 1) : table[j].name # name
    ELSE 0

\* a query that finds no row
FindTarget_Never(table, user_id, name) == 0

\* db.query(Target).filter_by(user_id=, name=).first(): the id of the row,
\* 0 when there is none
FindTarget(table, user_id, name) ==
  IF \E i \in 1..Len(table) : table[i] = [user_id |-> user_id, name |-> name]
    THEN CHOOSE i \in 1..Len(table) :
           /\ table[i] = [user_id |-> user_id, name |-> name]
           /\ \A j \in 1..(i - 1) : table[j] # table[i]
    ELSE 0

\* get_or_create_targets: the query for one of the names; a row that is
\* found is collected
GetOrCreateQuery ==
  /\ o_pc = "targets"
  /\ \E name \in o_names :
       LET existing == FindTarget(targets, o_req.user, name) IN
         IF existing # 0
           THEN /\ o_inserted' = o_inserted \cup {existing}
                /\ o_names' = o_names \ {name}
                /\ UNCHANGED <<o_pc, o_name>>
           ELSE /\ o_name' = name
                /\ o_pc' = "insert"
                /\ UNCHANGED <<o_inserted, o_names>>
  /\ UNCHANGED <<now, dbvars, kvvars, chanvars, o_req, o_payload, o_response, submitted,
                 svars, hvars, wvars, gvars, lvars, cvars, dvars>>

\* get_or_create_targets: no row was found, Target(user_id, name) is added
\* and committed
GetOrCreateInsert ==
  /\ o_pc = "insert"
  /\ targets' = Append(targets, [user_id |-> o_req.user, name |-> o_name])
  /\ o_inserted' = o_inserted \cup {Len(targets) + 1}
  /\ o_names' = o_names \ {o_name}
  /\ o_name' = <<>>
  /\ o_pc' = "targets"
  /\ UNCHANGED <<now, scan_exists, scan, findings, prev_exists, prev, kvvars, chanvars,
                 o_req, o_payload, o_response, submitted, svars, hvars, wvars, gvars, lvars,
                 cvars, dvars>>

\* create_scan_entry: the row is inserted with status PENDING, for the user
\* and with the targets collected
CreateScanEntry ==
  /\ o_pc = "targets" /\ o_names = {}
  /\ ~scan_exists
  /\ scan_exists' = TRUE
  /\ scan' = [NewScan EXCEPT !.user_id = o_req.user, !.targets = o_inserted]
  /\ o_pc' = "seed"
  /\ UNCHANGED <<now, findings, targets, prev_exists, prev, kvvars, chanvars, o_req,
                 o_payload, o_names, o_name, o_inserted, o_response, submitted, svars,
                 hvars, wvars, gvars, lvars, cvars, dvars>>

\* create_scan_entry of the next request, taken when scanner and watcher of
\* the scan before have ended: from here on S is the new scan and P the one
\* before; the keys and channels of the new uuid are empty and nothing
\* runs for it yet
ScannerEnded == s_pc \in {"idle", "returned", "raised"}
CreateNextScanEntry ==
  /\ o_pc = "targets" /\ o_names = {}
  /\ scan_exists /\ ~prev_exists
  /\ w_pc = "done" /\ ScannerEnded
  /\ prev_exists' = TRUE
  /\ prev' = scan
  /\ prev_kv' = [status |-> kv_status, progress |-> kv_progress]
  /\ scan' = [NewScan EXCEPT !.user_id = o_req.user, !.targets = o_inserted]
  /\ o_pc' = "seed"
  /\ kv_status' = None /\ kv_results' = Null /\ kv_output' = <<>> /\ kv_progress' = None
  /\ status_chan' = <<>> /\ w_inbox' = <<>>
  /\ s_pc' = "idle" /\ s_lines' = 0 /\ s_progress' = 0 /\ s_stored' = <<>>
  /\ w_pc' = "idle" /\ last_status' = None /\ last_message_time' = 0
  /\ current_status' = None /\ started_at_iso' = NoTime /\ finished_at_iso' = NoTime
  /\ db2_output' = Null /\ db2_result' = Null /\ db2_targets' = <<>> /\ w_exit' = None
  /\ UNCHANGED <<now, scan_exists, findings, targets, o_req, o_payload, o_names, o_name,
                 o_inserted, o_response, submitted, hvars, gvars, lvars, cvars, dvars>>

\* start_openfaas_job: scan:{S} is seeded with pending
SeedStatus ==
  /\ o_pc = "seed"
  /\ kv_status' = PENDING
  /\ o_pc' = "post"
  /\ UNCHANGED <<now, dbvars, prev_kv, kv_results, kv_output, kv_progress, chanvars, o_req,
                 o_payload, o_names, o_name, o_inserted, o_response, submitted, svars,
                 hvars, wvars, gvars, lvars, cvars, dvars>>

\* start_openfaas_job: the POST is answered 202 and the function is queued
PostAccepted ==
  /\ o_pc = "post"
  /\ s_pc' = "queued"
  /\ o_pc' = "dispatch"
  /\ UNCHANGED <<now, dbvars, kvvars, chanvars, o_req, o_payload, o_names, o_name,
                 o_inserted, o_response, submitted, s_lines, s_progress, s_stored, hvars,
                 wvars, gvars, lvars, cvars, dvars>>

\* a start_openfaas_job whose HTTPException leaves the handler
PostFailed_Raises ==
  /\ o_pc = "post"
  /\ o_pc' = "done"
  /\ o_response' = Some([status_code |-> 500])
  /\ UNCHANGED <<now, dbvars, kvvars, chanvars, o_req, o_payload, o_names, o_name,
                 o_inserted, submitted, svars, hvars, wvars, gvars, lvars, cvars, dvars>>

\* start_openfaas_job: the POST raises or is answered with another code than
\* 202; the except clause sets scan:{S} to failed and the handler goes on
PostFailed ==
  /\ o_pc = "post"
  /\ kv_status' = FAILED
  /\ o_pc' = "dispatch"
  /\ UNCHANGED <<now, dbvars, prev_kv, kv_results, kv_output, kv_progress, chanvars, o_req,
                 o_payload, o_names, o_name, o_inserted, o_response, submitted, svars,
                 hvars, wvars, gvars, lvars, cvars, dvars>>

\* watch_scan.delay(scan_id) and return {"scan_uuid": scan_id}
DispatchWatcher ==
  /\ o_pc = "dispatch"
  /\ w_pc' = "queued"
  /\ o_pc' = "done"
  /\ o_response' = Some([scan_uuid |-> "S"])
  /\ UNCHANGED <<now, dbvars, kvvars, chanvars, o_req, o_payload, o_names, o_name,
                 o_inserted, submitted, svars, hvars, last_status, last_message_time,
                 current_status, started_at_iso, finished_at_iso, db2_output, db2_result,
                 db2_targets, w_exit, gvars, lvars, cvars, dvars>>

\* -------------------------------------------------------- CheckTargets.run
\* _store_and_publish_message: rpush on scan_output:{S} and publish on {S}
StoreAndPublish(message) ==
  /\ kv_output' = Append(kv_output, message)
  /\ s_stored' = Append(s_stored, message)
  /\ ToGateway(OutputChannel, message)

\* __check_alive: scan:{S} is set to running
CheckAliveSetRunning ==
  /\ s_pc = "queued"
  /\ kv_status' = RUNNING
  /\ s_pc' = "first_progress"
  /\ UNCHANGED <<now, dbvars, prev_kv, kv_results, kv_output, kv_progress, chanvars, ovars,
                 s_lines, s_progress, s_stored, hvars, wvars, gvars, lvars, cvars, dvars>>

\* __check_alive: the first progress value, random.uniform(1.4, 2.8)
CheckAliveFirstProgress ==
  /\ s_pc = "first_progress"
  /\ PublishProgress("2")
  /\ s_pc' = "urls"
  /\ UNCHANGED <<now, dbvars, kvvars, status_chan, ovars, s_lines, s_progress, s_stored,
                 hvars, wvars, g_pc, sent_messages, g_frames, g_client, lvars, cvars,
                 dvars>>

\* __check_alive: targets are left after get_responding_urls, nmap is
\* started and the starting message is stored
CheckAliveStartNmap ==
  /\ s_pc = "urls"
  /\ StoreAndPublish(StartingLine)
  /\ s_pc' = "nmap"
  /\ UNCHANGED <<now, dbvars, prev_kv, kv_status, kv_results, kv_progress, chanvars, ovars,
                 s_lines, s_progress, hvars, wvars, g_pc, sent_messages, g_frames, g_client,
                 lvars, cvars, dvars>>

\* __check_alive: every target was a URL, nmap is not run
CheckAliveNoNmap ==
  /\ s_pc = "urls"
  /\ s_pc' = "parse"
  /\ UNCHANGED <<now, dbvars, kvvars, chanvars, ovars, s_lines, s_progress, s_stored, hvars,
                 wvars, gvars, lvars, cvars, dvars>>

\* __process_scan_output: a line of nmap that is shown to the user
CheckAliveOutputLine ==
  /\ s_pc = "nmap"
  /\ s_lines < MaxLines
  /\ StoreAndPublish(NmapLine(s_lines + 1))
  /\ s_lines' = s_lines + 1
  /\ UNCHANGED <<now, dbvars, prev_kv, kv_status, kv_results, kv_progress, chanvars, ovars,
                 s_pc, s_progress, hvars, wvars, g_pc, sent_messages, g_frames, g_client,
                 lvars, cvars, dvars>>

\* __process_scan_output: a timing line of nmap, published as progress
CheckAliveProgress ==
  /\ s_pc = "nmap"
  /\ s_progress < MaxProgress
  /\ PublishProgress("50")
  /\ s_progress' = s_progress + 1
  /\ UNCHANGED <<now, dbvars, kvvars, status_chan, ovars, s_pc, s_lines, s_stored, hvars,
                 wvars, g_pc, sent_messages, g_frames, g_client, lvars, cvars, dvars>>

\* __check_alive: nmap ends with return code 0
CheckAliveCompleted ==
  /\ s_pc = "nmap"
  /\ StoreAndPublish(CompletionLine)
  /\ s_pc' = "parse"
  /\ UNCHANGED <<now, dbvars, prev_kv, kv_status, kv_results, kv_progress, chanvars, ovars,
                 s_lines, s_progress, hvars, wvars, g_pc, sent_messages, g_frames, g_client,
                 lvars, cvars, dvars>>

\* __check_alive: nmap fails or raises; the error line is stored, scan:{S}
\* is set to failed and the exception leaves run
CheckAliveFailed ==
  /\ s_pc = "nmap"
  /\ StoreAndPublish(ErrorLine)
  /\ kv_status' = FAILED
  /\ s_pc' = "raised"
  /\ UNCHANGED <<now, dbvars, prev_kv, kv_results, kv_progress, chanvars, ovars, s_lines,
                 s_progress, hvars, wvars, g_pc, sent_messages, g_frames, g_client, lvars,
                 cvars, dvars>>

\* __parse_output: the XML file is read
ParseOutputOk ==
  /\ s_pc = "parse"
  /\ s_pc' = "write_status"
  /\ UNCHANGED <<now, dbvars, kvvars, chanvars, ovars, s_lines, s_progress, s_stored, hvars,
                 wvars, gvars, lvars, cvars, dvars>>

\* __parse_output: the file is missing or unreadable
ParseOutputFailed ==
  /\ s_pc = "parse"
  /\ kv_status' = FAILED
  /\ s_pc' = "raised"
  /\ UNCHANGED <<now, dbvars, prev_kv, kv_results, kv_output, kv_progress, chanvars, ovars,
                 s_lines, s_progress, s_stored, hvars, wvars, gvars, lvars, cvars, dvars>>

\* __write_output: the three Redis commands, in the order of the source
WriteOutputOrder == <<"write_status", "write_progress", "write_results", "returned">>
WriteOutputNext(pc) ==
  LET i == CHOOSE k \in 1..3 : WriteOutputOrder[k] = pc IN WriteOutputOrder[i + 1]

WriteOutputStatus ==
  /\ s_pc = "write_status"
  /\ kv_status' = COMPLETED
  /\ s_pc' = WriteOutputNext(s_pc)
  /\ UNCHANGED <<now, dbvars, prev_kv, kv_results, kv_output, kv_progress, chanvars, ovars,
                 s_lines, s_progress, s_stored, hvars, wvars, gvars, lvars, cvars, dvars>>

WriteOutputProgress ==
  /\ s_pc = "write_progress"
  /\ PublishProgress("100")
  /\ s_pc' = WriteOutputNext(s_pc)
  /\ UNCHANGED <<now, dbvars, kvvars, status_chan, ovars, s_lines, s_progress, s_stored,
                 hvars, wvars, g_pc, sent_messages, g_frames, g_client, lvars, cvars,
                 dvars>>

WriteOutputResults ==
  /\ s_pc = "write_results"
  /\ \E results \in ResultLists : kv_results' = Some(JsonDumps(results))
  /\ s_pc' = WriteOutputNext(s_pc)
  /\ UNCHANGED <<now, dbvars, prev_kv, kv_status, kv_output, kv_progress, chanvars, ovars,
                 s_lines, s_progress, s_stored, hvars, wvars, gvars, lvars, cvars, dvars>>

\* __write_output: one of the three Redis commands raises redis.RedisError;
\* the handler writes self.status, which the first statement of the try
\* block has set to "completed", to scan:{S} and raises CheckTargetsException.
\* When the command of the handler raises as well, scan:{S} keeps its value.
WriteOutputRedisError ==
  /\ s_pc \in {"write_status", "write_progress", "write_results"}
  /\ \E handler_writes \in BOOLEAN :
       kv_status' = IF handler_writes THEN COMPLETED ELSE kv_status
  /\ s_pc' = "raised"
  /\ UNCHANGED <<now, dbvars, prev_kv, kv_results, kv_output, kv_progress, chanvars, ovars,
                 s_lines, s_progress, s_stored, hvars, wvars, gvars, lvars, cvars, dvars>>

\* --------------------------------------------------------------- scan_hook
\* handle(): the body the function returns, which the gateway of the
\* function platform posts to the callback URL
HandlerBody(pc) ==
  IF pc = "returned" THEN [scan_id |-> "S", status |-> COMPLETED]
  ELSE [scan_id |-> "S", error |-> "e"]

\* data.get("status", "completed")
HookStatus(data) == IF "status" \in DOMAIN data THEN data.status ELSE COMPLETED
\* data.get("scan_id")
HookScanId(data) == IF "scan_id" \in DOMAIN data THEN data.scan_id ELSE None

\* scan_hook: the row is found, scan.status is assigned and committed
ScanHookUpdate(row, scan_status) == [row EXCEPT !.status = scan_status]

\* request bodies that do not come from the function: not JSON, a scan_id
\* that no row has, no scan_id at all
NotJsonBody == [text |-> "{"]
ForeignBodies ==
  { NotJsonBody,
    JsonDumps([scan_id |-> "X", status |-> COMPLETED]),
    JsonDumps([status |-> COMPLETED]) }

\* await asyncio.wait_for(request.json(), timeout=10.0): the parsed body,
\* Null when json() raises or does not end in time
RequestJson(body) == IF "json" \in DOMAIN body THEN Some(JsonLoads(body)) ELSE Null

\* a handler whose exceptions reach the framework
HookFailed_Propagates == [status_code |-> 500, body |-> [detail |-> "Internal Server Error"]]

\* the three returns of scan_hook; a returned dict is answered with 200
HookSucceeded == [status_code |-> 200, body |-> [success |-> TRUE]]
HookNotFound == [status_code |-> 200, body |-> [error |-> "Scan not found in DB"]]
HookFailed == [status_code |-> 200, body |-> [error |-> "Failed to parse request body"]]

\* db.query(Scan).filter_by(uuid=scan_id).first() finds the row of S
HookFindsScan(data) == scan_exists /\ HookScanId(data) = "S"

\* scan_hook(request, db)
ScanHookCall(body) ==
  /\ hooks' = hooks + 1
  /\ hook_body' = Some(body)
  /\ LET parsed == RequestJson(body) IN
       IF parsed = Null
         THEN hook_response' = Some(HookFailed) /\ UNCHANGED scan
       ELSE IF HookFindsScan(Val(parsed))
         THEN /\ scan' = ScanHookUpdate(scan, HookStatus(Val(parsed)))
              /\ hook_response' = Some(HookSucceeded)
       ELSE hook_response' = Some(HookNotFound) /\ UNCHANGED scan
  /\ UNCHANGED <<now, scan_exists, findings, targets, prev_exists, prev, kvvars, chanvars,
                 ovars, svars, wvars, gvars, lvars, cvars, dvars>>

\* the callback of the function platform, once the function has ended
ScanHook ==
  /\ s_pc \in {"returned", "raised"}
  /\ hooks < MaxHooks
  /\ ScanHookCall(JsonDumps(HandlerBody(s_pc)))

\* a request of another sender, at any time
ScanHookForeign ==
  /\ hooks < MaxHooks
  /\ \E body \in ForeignBodies : ScanHookCall(body)

\* the function platform delivers the callback again with the same body
ScanHookAgain ==
  /\ hooks >= 1
  /\ hooks < MaxHooks + MaxRedeliveries
  /\ ScanHookCall(Val(hook_body))

\* ------------------------------------------------------ update_scan_status
\* the timestamps branch: RUNNING on a row that is not RUNNING sets
\* started_at, a terminal status on a row without finished_at sets it
SetsStartedAt(row, status) == status = RUNNING /\ row.status # RUNNING
SetsFinishedAt(row, status) ==
  /\ ~SetsStartedAt(row, status)
  /\ status \in Terminal
  /\ row.finished_at = NoTime

\* a variant that stamps finished_at for COMPLETED only
update_scan_status_CompletedOnly(row, status, t) ==
  LET stamped == IF SetsStartedAt(row, status) THEN [row EXCEPT !.started_at = t]
                 ELSE IF SetsFinishedAt(row, status) /\ status = COMPLETED
                   THEN [row EXCEPT !.finished_at = t]
                 ELSE row
  IN [stamped EXCEPT !.status = status]

update_scan_status(row, status, t) ==
  LET stamped == IF SetsStartedAt(row, status) THEN [row EXCEPT !.started_at = t]
                 ELSE IF SetsFinishedAt(row, status) THEN [row EXCEPT !.finished_at = t]
                 ELSE row
  IN [stamped EXCEPT !.status = status]

\* process_scan_results: name = host.get('hostname') or ip
HostName(host) == IF host.hostname # <<>> THEN host.hostname ELSE host.ip_address

\* process_scan_results: the names, in the order of the hosts and without
\* repetition, for which the query finds no target of the user; for each a
\* Target is added and flushed
RECURSIVE NewTargetNames(_, _, _, _)
NewTargetNames(scan_results, table, user_id, new) ==
  IF scan_results = <<>> THEN new
  ELSE LET name == HostName(Head(scan_results))
           missing == /\ name # <<>>
                      /\ FindTarget(table, user_id, name) = 0
                      /\ \A k \in 1..Len(new) : new[k] # name
       IN NewTargetNames(Tail(scan_results), table, user_id,
                         IF missing THEN Append(new, name) ELSE new)

\* the rows that the commit of the session inserts for these names
NewTargetRows(user_id, new) ==
  [k \in 1..Len(new) |-> [user_id |-> user_id, name |-> new[k]]]

\* the id of the Target object that the loop uses for a name: the row added
\* in this session, else the row the query found
SessionTargetId(table, user_id, new, name) ==
  IF \E k \in 1..Len(new) : new[k] = name
    THEN Len(table) + (CHOOSE k \in 1..Len(new) : new[k] = name)
    ELSE FindTarget(table, user_id, name)

\* process_scan_results: the findings of a result list, two per named host
HostFindings(host, target_id) ==
  IF HostName(host) = <<>> THEN <<>>
  ELSE << [name |-> HostName(host) \o <<"-OS">>, target |-> target_id],
          [name |-> HostName(host) \o <<"-Traceroute">>, target |-> target_id] >>
RECURSIVE process_scan_results(_, _, _, _)
process_scan_results(scan_results, table, user_id, new) ==
  IF scan_results = <<>> THEN <<>>
  ELSE HostFindings(Head(scan_results),
                    SessionTargetId(table, user_id, new, HostName(Head(scan_results))))
         \o process_scan_results(Tail(scan_results), table, user_id, new)

\* process_scan_results: the targets appended to scan.targets
ResultTargetIds(scan_results, table, user_id, new) ==
  { SessionTargetId(table, user_id, new, HostName(scan_results[i])) :
      i \in { j \in 1..Len(scan_results) : HostName(scan_results[j]) # <<>> } }

\* -------------------------------------------------------------- watch_scan
\* the task starts: subscribe to {S}:progress, last_message_time = time.time()
WatchStart ==
  /\ w_pc = "queued"
  /\ w_pc' = "get_message"
  /\ last_message_time' = now
  /\ last_status' = None
  /\ w_inbox' = <<>>
  /\ UNCHANGED <<now, dbvars, kvvars, status_chan, ovars, svars, hvars, current_status,
                 started_at_iso, finished_at_iso, db2_output, db2_result, db2_targets,
                 w_exit, gvars, lvars, cvars, dvars>>

\* pubsub.get_message(timeout=1.0): one message or none; a numeric one
\* resets the timer and is cached in scan_progress:{S}
WatchGetMessage ==
  /\ w_pc = "get_message"
  /\ IF w_inbox # <<>>
       THEN /\ w_inbox' = Tail(w_inbox)
            /\ IF IsNumeric(Head(w_inbox))
                 THEN last_message_time' = now /\ kv_progress' = Head(w_inbox)
                 ELSE UNCHANGED <<last_message_time, kv_progress>>
       ELSE UNCHANGED <<w_inbox, last_message_time, kv_progress>>
  /\ w_pc' = "get_status"
  /\ UNCHANGED <<now, dbvars, prev_kv, kv_status, kv_results, kv_output, status_chan, ovars,
                 svars, hvars, last_status, current_status, started_at_iso, finished_at_iso,
                 db2_output, db2_result, db2_targets, w_exit, gvars, lvars, cvars, dvars>>

\* r.get(scan:{S}) and the comparison with last_status
StatusMapping == {RUNNING, COMPLETED, FAILED}
WatchGetStatus ==
  /\ w_pc = "get_status"
  /\ IF kv_status # None /\ kv_status # last_status
       THEN /\ current_status' = kv_status
            /\ last_status' = kv_status
            /\ IF kv_status \in StatusMapping
                 THEN w_pc' = "update" /\ UNCHANGED <<started_at_iso, finished_at_iso>>
                 ELSE w_pc' = "publish" /\ started_at_iso' = NoTime /\ finished_at_iso' = NoTime
       ELSE /\ w_pc' = "sleep"
            /\ current_status' = IF kv_status # None THEN kv_status ELSE current_status
            /\ UNCHANGED <<last_status, started_at_iso, finished_at_iso>>
  /\ UNCHANGED <<now, dbvars, kvvars, chanvars, ovars, svars, hvars, last_message_time,
                 db2_output, db2_result, db2_targets, w_exit, gvars, lvars, cvars, dvars>>

\* update_scan_status(scan_uuid, enum_status, db) and the query that reads
\* the timestamps back
WatchUpdate ==
  /\ w_pc = "update"
  /\ scan_exists
  /\ scan' = update_scan_status(scan, current_status, now)
  /\ IF SetsFinishedAt(scan, current_status) THEN PublishProgress("100")
       ELSE UNCHANGED <<w_inbox, g_inbox>>
  /\ started_at_iso' = scan'.started_at
  /\ finished_at_iso' = scan'.finished_at
  /\ w_pc' = "publish"
  /\ UNCHANGED <<now, scan_exists, findings, targets, prev_exists, prev, kvvars,
                 status_chan, ovars, svars, hvars, last_status, last_message_time,
                 current_status, db2_output, db2_result, db2_targets, w_exit, g_pc,
                 sent_messages, g_frames, g_client, lvars, cvars, dvars>>

\* r.publish({S}:status, {status, started_at, finished_at})
WatchPublish ==
  /\ w_pc = "publish"
  /\ PublishStatus([status |-> current_status, started_at |-> started_at_iso,
                    finished_at |-> finished_at_iso])
  /\ w_pc' = IF current_status \in Terminal THEN "final" ELSE "sleep"
  /\ UNCHANGED <<now, dbvars, kvvars, w_inbox, ovars, svars, hvars, last_status,
                 last_message_time, current_status, started_at_iso, finished_at_iso,
                 db2_output, db2_result, db2_targets, w_exit, g_pc, sent_messages, g_frames,
                 g_client, lvars, cvars, dvars>>

\* terminal status failed: db2 is opened and closed, the loop is left
WatchFinalFailed ==
  /\ w_pc = "final"
  /\ ~(current_status = COMPLETED /\ scan_exists)
  /\ w_pc' = "done" /\ w_exit' = "terminal"
  /\ UNCHANGED <<now, dbvars, kvvars, chanvars, ovars, svars, hvars, last_status,
                 last_message_time, current_status, started_at_iso, finished_at_iso,
                 db2_output, db2_result, db2_targets, gvars, lvars, cvars, dvars>>

\* terminal status completed: lrange, scan_db.output = join, delete of the list
WatchPersistOutput ==
  /\ w_pc = "final"
  /\ current_status = COMPLETED /\ scan_exists
  /\ IF kv_output # <<>>
       THEN db2_output' = Some(JoinLines(kv_output)) /\ kv_output' = <<>>
       ELSE UNCHANGED <<db2_output, kv_output>>
  /\ w_pc' = "get_results"
  /\ UNCHANGED <<now, dbvars, prev_kv, kv_status, kv_results, kv_progress, chanvars, ovars,
                 svars, hvars, last_status, last_message_time, current_status,
                 started_at_iso, finished_at_iso, db2_result, db2_targets, w_exit, gvars,
                 lvars, cvars, dvars>>

\* r.get(scan_results:{S}): present, scan_db.result is assigned
WatchGetResults ==
  /\ w_pc = "get_results"
  /\ kv_results # Null
  /\ db2_result' = Some(JsonDumps(JsonLoads(Val(kv_results))))
  /\ w_pc' = "process"
  /\ UNCHANGED <<now, dbvars, kvvars, chanvars, ovars, svars, hvars, last_status,
                 last_message_time, current_status, started_at_iso, finished_at_iso,
                 db2_output, db2_targets, w_exit, gvars, lvars, cvars, dvars>>

\* r.get(scan_results:{S}): missing, db2.close() drops what was not committed
WatchNoResults ==
  /\ w_pc = "get_results"
  /\ kv_results = Null
  /\ db2_output' = Null
  /\ w_pc' = "done" /\ w_exit' = "terminal"
  /\ UNCHANGED <<now, dbvars, kvvars, chanvars, ovars, svars, hvars, last_status,
                 last_message_time, current_status, started_at_iso, finished_at_iso,
                 db2_result, db2_targets, gvars, lvars, cvars, dvars>>

\* process_scan_results(scan_db, scan_results, db2): the loop over the
\* hosts with its queries; the targets that are missing are added to db2
WatchResolveTargets ==
  /\ w_pc = "process"
  /\ db2_targets' =
       NewTargetNames(JsonLoads(Val(db2_result)), targets, scan.user_id, <<>>)
  /\ w_pc' = "commit"
  /\ UNCHANGED <<now, dbvars, kvvars, chanvars, ovars, svars, hvars, last_status,
                 last_message_time, current_status, started_at_iso, finished_at_iso,
                 db2_output, db2_result, w_exit, gvars, lvars, cvars, dvars>>

\* what the commit of session db2 writes: the changed columns of the scans
\* row, the targets of the scan, the targets and the findings added by
\* process_scan_results
CommitScanRow(row, output, result) ==
  [row EXCEPT !.output = IF output # Null THEN output ELSE @, !.result = result]
\* a variant in which the findings are not part of the commit
CommitFindings_Dropped(rows, result, table, user_id, new) == rows

CommitFindings(rows, result, table, user_id, new) ==
  rows \o process_scan_results(JsonLoads(Val(result)), table, user_id, new)

\* the db.commit() of process_scan_results
WatchProcessResults ==
  /\ w_pc = "commit"
  /\ scan' = [CommitScanRow(scan, db2_output, db2_result) EXCEPT
                !.targets = @ \cup ResultTargetIds(JsonLoads(Val(db2_result)), targets,
                                                  scan.user_id, db2_targets)]
  /\ targets' = targets \o NewTargetRows(scan.user_id, db2_targets)
  /\ findings' = CommitFindings(findings, db2_result, targets, scan.user_id, db2_targets)
  /\ db2_output' = Null /\ db2_result' = Null /\ db2_targets' = <<>>
  /\ w_pc' = "delete_results"
  /\ UNCHANGED <<now, scan_exists, prev_exists, prev, kvvars, chanvars, ovars, svars, hvars,
                 last_status, last_message_time, current_status, started_at_iso,
                 finished_at_iso, w_exit, gvars, lvars, cvars, dvars>>

\* a variant that neither deletes the key nor leaves the loop, and runs the
\* block for the terminal status again
WatchDeleteResults_Again ==
  /\ w_pc = "delete_results"
  /\ w_pc' = "get_results"
  /\ UNCHANGED <<now, dbvars, kvvars, chanvars, ovars, svars, hvars, last_status,
                 last_message_time, current_status, started_at_iso, finished_at_iso,
                 db2_output, db2_result, db2_targets, w_exit, gvars, lvars, cvars, dvars>>

\* r.delete(scan_results:{S}), db2.close(), break
WatchDeleteResults ==
  /\ w_pc = "delete_results"
  /\ kv_results' = Null
  /\ w_pc' = "done" /\ w_exit' = "terminal"
  /\ UNCHANGED <<now, dbvars, prev_kv, kv_status, kv_output, kv_progress, chanvars, ovars,
                 svars, hvars, last_status, last_message_time, current_status,
                 started_at_iso, finished_at_iso, db2_output, db2_result, db2_targets,
                 gvars, lvars, cvars, dvars>>

\* a timer that never expires
InactivityExpired_Never(t, last) == FALSE

\* time.time() - last_message_time > 120
InactivityExpired(t, last) == t - last > InactivityTimeout

\* after asyncio.sleep(1.5): the timer has not expired, next pass
WatchSleep ==
  /\ w_pc = "sleep"
  /\ ~InactivityExpired(now, last_message_time)
  /\ w_pc' = "get_message"
  /\ UNCHANGED <<now, dbvars, kvvars, chanvars, ovars, svars, hvars, last_status,
                 last_message_time, current_status, started_at_iso, finished_at_iso,
                 db2_output, db2_result, db2_targets, w_exit, gvars, lvars, cvars, dvars>>

\* after asyncio.sleep(1.5): the timer has expired,
\* update_scan_status(scan_uuid, FAILED, db) and break
WatchInactivity ==
  /\ w_pc = "sleep"
  /\ InactivityExpired(now, last_message_time)
  /\ scan_exists
  /\ scan' = update_scan_status(scan, FAILED, now)
  /\ w_pc' = "done" /\ w_exit' = "inactivity"
  /\ UNCHANGED <<now, scan_exists, findings, targets, prev_exists, prev, kvvars, chanvars,
                 ovars, svars, hvars, last_status, last_message_time, current_status,
                 started_at_iso, finished_at_iso, db2_output, db2_result, db2_targets,
                 gvars, lvars, cvars, dvars>>

\* ---------------------------------------------------------- websocket_scan
\* accept and subscribe to {S}, {S}:progress and {S}:status
WsScanConnect ==
  /\ g_pc = "closed"
  /\ g_pc' = "open"
  /\ \E client \in Users : g_client' = client
  /\ g_inbox' = <<>>
  /\ sent_messages' = {}
  /\ g_frames' = <<>>
  /\ UNCHANGED <<now, dbvars, kvvars, chanvars, ovars, svars, hvars, wvars, lvars, cvars,
                 dvars>>

\* the frame sent for one message, <<>> when the message is dropped
ProgressFrame(data) ==
  IF IsNumeric(data) THEN <<[type |-> "progress", value |-> data]>> ELSE <<>>
\* json.loads raises JSONDecodeError on a text that is not JSON: dropped
StatusFrame(data) ==
  IF "json" \in DOMAIN data
    THEN LET status_data == JsonLoads(data)
         IN <<[type |-> "status", value |-> status_data.status,
               started_at |-> status_data.started_at,
               finished_at |-> status_data.finished_at]>>
    ELSE <<>>
\* status_data.get on a value that is no dict raises AttributeError, which
\* except json.JSONDecodeError does not catch
StatusRaises(data) == "json_number" \in DOMAIN data
OutputFrame(data, sent) ==
  IF data \in sent THEN <<>> ELSE <<[type |-> "output", value |-> data]>>
GatewayFrame(message, sent) ==
  IF message.channel = ProgressChannel THEN ProgressFrame(message.data)
  ELSE IF message.channel = StatusChannel THEN StatusFrame(message.data)
  ELSE OutputFrame(message.data, sent)

\* set(list(sent_messages)[-2000:]): a set has no order of its own, so the
\* list can end in any 2000 of its elements; the model takes the runs of 2000
\* lines in the order of their codes, the oldest and the newest among them
LastOfList(sent) ==
  { kept \in { { p \in sent : lo <= p[1] /\ p[1] < lo + SentKept } : lo \in { p[1] : p \in sent } } :
      Cardinality(kept) = SentKept }
\* if len(sent_messages) > 5000: the sets the cleanup can leave
CleanedUp(sent) == IF Cardinality(sent) > SentCapacity THEN LastOfList(sent) ELSE {sent}

GatewayRaises(message) == message.channel = StatusChannel /\ StatusRaises(message.data)

\* one pass of the loop with a message: the frame is sent by channel
\* a variant that puts the frame of a message before the frames sent so far
WsScanMessage_Prepends ==
  /\ g_pc = "open"
  /\ g_inbox # <<>>
  /\ ~GatewayRaises(Head(g_inbox))
  /\ LET message == Head(g_inbox) IN
       /\ g_frames' = GatewayFrame(message, sent_messages) \o g_frames
       /\ sent_messages' \in IF message.channel = OutputChannel
                               THEN CleanedUp(sent_messages \cup {message.data})
                               ELSE {sent_messages}
  /\ g_inbox' = Tail(g_inbox)
  /\ UNCHANGED <<now, dbvars, kvvars, chanvars, ovars, svars, hvars, wvars, g_pc, g_client,
                 lvars, cvars, dvars>>

WsScanMessage ==
  /\ g_pc = "open"
  /\ g_inbox # <<>>
  /\ ~GatewayRaises(Head(g_inbox))
  /\ LET message == Head(g_inbox) IN
       /\ g_frames' = g_frames \o GatewayFrame(message, sent_messages)
       /\ sent_messages' \in IF message.channel = OutputChannel
                               THEN CleanedUp(sent_messages \cup {message.data})
                               ELSE {sent_messages}
  /\ g_inbox' = Tail(g_inbox)
  /\ UNCHANGED <<now, dbvars, kvvars, chanvars, ovars, svars, hvars, wvars, g_pc, g_client,
                 lvars, cvars, dvars>>

\* one pass of the loop with a message whose handling raises: except
\* Exception logs it and the finally clause unsubscribes and closes
WsScanMessageRaises ==
  /\ g_pc = "open"
  /\ g_inbox # <<>>
  /\ GatewayRaises(Head(g_inbox))
  /\ g_pc' = "error"
  /\ g_inbox' = <<>>
  /\ UNCHANGED <<now, dbvars, kvvars, chanvars, ovars, svars, hvars, wvars, sent_messages,
                 g_frames, g_client, lvars, cvars, dvars>>

\* a handler that ends the scan of a client who leaves
WsScanDisconnect_Cancels ==
  /\ g_pc = "open"
  /\ g_pc' = "left"
  /\ g_inbox' = <<>>
  /\ kv_status' = FAILED
  /\ UNCHANGED <<now, dbvars, prev_kv, kv_results, kv_output, kv_progress, chanvars, ovars,
                 svars, hvars, wvars, sent_messages, g_frames, g_client, lvars, cvars,
                 dvars>>

\* WebSocketDisconnect: unsubscribe, close the pubsub and the connection
WsScanDisconnect ==
  /\ g_pc = "open"
  /\ g_pc' = "left"
  /\ g_inbox' = <<>>
  /\ UNCHANGED <<now, dbvars, kvvars, chanvars, ovars, svars, hvars, wvars, sent_messages,
                 g_frames, g_client, lvars, cvars, dvars>>

\* --------------------------------------------------------- websocket_scans
\* a query that leaves out the pending scans only
ListedStatuses_NotPending == ScanStatus \ {PENDING}

\* the scans of the user that the query of one pass selects
ListedStatuses == ScanStatus \ {PENDING, COMPLETED}
ScanUpdateFrame(uuid, row, status, progress) ==
  [type |-> "scan_update", scan_uuid |-> uuid,
   status |-> status,
   progress |-> IF progress # None /\ IsNumeric(progress) THEN progress ELSE None,
   started_at |-> row.started_at]

\* await websocket.accept(): the handler takes keycloak_uuid from the query
\* string of whoever connects
WsScansConnect(clients) ==
  /\ l_conn = NoConnection
  /\ \E client \in clients, keycloak_uuid \in Users :
       l_conn' = [client |-> client, keycloak_uuid |-> keycloak_uuid]
  /\ l_frames' = <<>>
  /\ UNCHANGED <<now, dbvars, kvvars, chanvars, ovars, svars, hvars, wvars, gvars, cvars,
                 dvars>>

\* the query of one pass: the scans of the user keycloak_uuid that are
\* neither pending nor completed
ListedScan(exists, row, keycloak_uuid) ==
  exists /\ row.user_id = keycloak_uuid /\ row.status \in ListedStatuses
\* for scan in scans: the two Redis reads and the frame of each
ListFrames(keycloak_uuid) ==
  (IF ListedScan(prev_exists, prev, keycloak_uuid)
     THEN <<ScanUpdateFrame("P", prev, prev_kv.status, prev_kv.progress)>> ELSE <<>>)
  \o (IF ListedScan(scan_exists, scan, keycloak_uuid)
        THEN <<ScanUpdateFrame("S", scan, kv_status, kv_progress)>> ELSE <<>>)
\* .all() without order_by: the rows come in an order the database chooses
Reversed(frames) == [i \in 1..Len(frames) |-> frames[Len(frames) + 1 - i]]

\* one pass of the loop: the query, the two Redis reads and the frames
WsScansPass ==
  /\ l_conn # NoConnection
  /\ l_frames' \in {ListFrames(l_conn.keycloak_uuid), Reversed(ListFrames(l_conn.keycloak_uuid))}
  /\ UNCHANGED <<now, dbvars, kvvars, chanvars, ovars, svars, hvars, wvars, gvars, l_conn,
                 cvars, dvars>>

WsScanNext == WsScanConnect \/ WsScanMessage \/ WsScanDisconnect

\* start_scan after the request was received
OrchestratorSteps ==
  \/ GetOrCreateQuery \/ GetOrCreateInsert
  \/ CreateScanEntry \/ SeedStatus \/ PostAccepted \/ PostFailed \/ DispatchWatcher
\* start_scan for one request of one plain address
OrchestratorNext == StartScan({PlainRequest}) \/ OrchestratorSteps
\* a run in which nmap prints no line for the user and no timing line
ScannerQuietNext ==
  \/ CheckAliveSetRunning \/ CheckAliveFirstProgress \/ CheckAliveStartNmap
  \/ CheckAliveNoNmap \/ CheckAliveCompleted \/ CheckAliveFailed
  \/ ParseOutputOk \/ ParseOutputFailed
  \/ WriteOutputStatus \/ WriteOutputProgress \/ WriteOutputResults
ScannerNext == ScannerQuietNext \/ CheckAliveOutputLine \/ CheckAliveProgress
\* the watcher without the branch of its timer
WatcherLoopNext ==
  \/ WatchStart \/ WatchGetMessage \/ WatchGetStatus \/ WatchUpdate \/ WatchPublish
  \/ WatchFinalFailed \/ WatchPersistOutput \/ WatchGetResults \/ WatchNoResults
  \/ WatchResolveTargets \/ WatchProcessResults \/ WatchDeleteResults \/ WatchSleep
WatcherNext == WatcherLoopNext \/ WatchInactivity

\* the scan lifecycle: orchestrator, scanner, callback and watcher
Next == Tick \/ OrchestratorNext \/ ScannerNext \/ ScanHook \/ WatcherNext

Spec == Init /\ [][Next]_vars

\* a connection to /ws/{S} that has forwarded an output of SentCapacity
\* distinct lines, each once, while no scan is in the database
InitLongOutput ==
  /\ now = 0
  /\ scan_exists = FALSE
  /\ scan = NewScan
  /\ findings = <<>>
  /\ targets = <<>>
  /\ prev_exists = FALSE /\ prev = NewScan
  /\ kv_status = None /\ kv_results = Null /\ kv_output = <<>> /\ kv_progress = None
  /\ prev_kv = NoKeys
  /\ status_chan = <<>> /\ w_inbox = <<>>
  /\ o_pc = "idle" /\ o_req = NoRequest /\ o_payload = <<>>
  /\ o_names = {} /\ o_name = <<>>
  /\ o_inserted = {} /\ o_response = Null /\ submitted = <<>>
  /\ s_pc = "idle" /\ s_lines = 0 /\ s_progress = 0 /\ s_stored = <<>>
  /\ hooks = 0 /\ hook_body = Null /\ hook_response = Null
  /\ w_pc = "idle" /\ last_status = None /\ last_message_time = 0
  /\ current_status = None /\ started_at_iso = NoTime /\ finished_at_iso = NoTime
  /\ db2_output = Null /\ db2_result = Null /\ db2_targets = <<>> /\ w_exit = None
  /\ g_pc = "open" /\ g_inbox = <<>>
  /\ sent_messages = { DistinctLine(i) : i \in 1..SentCapacity }
  /\ g_frames = [i \in 1..SentCapacity |-> [type |-> "output", value |-> DistinctLine(i)]]
  /\ g_client = "u1"
  /\ l_conn = NoConnection /\ l_frames = <<>>
  /\ c_pc = "idle" /\ c_ports = <<>> /\ c_now = 0 /\ c_findings = <<>>
  /\ c_host = NoHost
  /\ d_request = NoDelete /\ d_response = Null

\* a message on channel {S}: a line that was not published before, the first
\* line again or the latest line again
PublishOutput ==
  /\ g_pc = "open"
  /\ g_inbox = <<>>
  /\ Len(g_frames) < SentCapacity + MaxOverflow
  /\ \E i \in {1, Len(g_frames), Len(g_frames) + 1} :
       ToGateway(OutputChannel, DistinctLine(i))
  /\ UNCHANGED <<now, dbvars, kvvars, chanvars, ovars, svars, hvars, wvars, g_pc,
                 sent_messages, g_frames, g_client, lvars, cvars, dvars>>

\* the connection while the long output goes on
NextLongOutput == PublishOutput \/ WsScanMessage

SpecLongOutput == InitLongOutput /\ [][NextLongOutput]_vars

\* the targets the normalizer is given: addresses, a URL, networks and
\* ranges, private and not, with and without slashes at the end
NormalizerTargets ==
  { <<>>, IpA, PrivateIp, <<"192.168.1.1">>, UrlB, <<"/">>,
    <<"https://", "10.0.0.1", "/">>, <<"10.0.0.1", "/">>,
    <<"10.0.0.0", "/", "8">>, <<"10.0.0.1", "/", "8", "/">>, <<"8.8.8.0", "/", "24">>,
    <<"11.0.0.1", "/", "7">>,
    <<"8.8.8.8", "-", "20">>, <<"10.0.0.1", "-", "20">>, <<"10.0.0.1", "-", "300">>,
    <<"8.8.8.8", "-", "10.0.0.1">>, <<"8.8.8.8", "-", "5.6.7.8">>,
    <<"8.8.8.8", "-", "0.20">>, <<"999.1.1.1", "-", "10.0.0.1">> }
\* the lists of at most MaxTargets of them
TargetListsUpTo(n) == UNION { [1..k -> NormalizerTargets] : k \in 0..n }
NormalizerRequests == [user : {"u1"}, targets : TargetListsUpTo(MaxTargets)]

\* start_scan up to the call of the normalizer, for any list of targets
NextNormalizer == StartScan(NormalizerRequests)

SpecNormalizer == Init /\ [][NextNormalizer]_vars

\* ---------------------------------------------------- the GET endpoints
\* get_findings_by_scan_uuid: the findings of the targets of the scan
GetFindings(row) == SelectSeq(findings, LAMBDA f : f.target \in row.targets)

\* the uuids a request can name: the two scans and one that no row has
ScanUuids == {"S", "P", "X"}
\* db.query(Scan).filter_by(uuid=scan_uuid).first()
FindScan(scan_uuid) ==
  IF scan_uuid = "S" /\ scan_exists THEN Some(scan)
  ELSE IF scan_uuid = "P" /\ prev_exists THEN Some(prev)
  ELSE Null
\* the two HTTPException of the three handlers: 404 when there is no row,
\* 403 when the row is not of the user of the token; Null when neither
AccessDenied(user, scan_uuid) ==
  IF FindScan(scan_uuid) = Null THEN Some([status_code |-> 404])
  ELSE IF Val(FindScan(scan_uuid)).user_id # user THEN Some([status_code |-> 403])
  ELSE Null
\* GET /api/scans/{uuid}
get_scan_by_uuid(user, scan_uuid) ==
  IF AccessDenied(user, scan_uuid) # Null THEN Val(AccessDenied(user, scan_uuid))
  ELSE LET row == Val(FindScan(scan_uuid))
       IN [status_code |-> 200,
           body |-> [scan_uuid |-> scan_uuid, status |-> row.status, result |-> row.result,
                     targets |-> row.targets, started_at |-> row.started_at,
                     finished_at |-> row.finished_at]]
\* GET /api/scans/{uuid}/status
get_scan_status(user, scan_uuid) ==
  IF AccessDenied(user, scan_uuid) # Null THEN Val(AccessDenied(user, scan_uuid))
  ELSE [status_code |-> 200, body |-> [status |-> Val(FindScan(scan_uuid)).status]]
\* GET /api/scans/{uuid}/findings
get_findings_by_scan_uuid(user, scan_uuid) ==
  IF AccessDenied(user, scan_uuid) # Null THEN Val(AccessDenied(user, scan_uuid))
  ELSE [status_code |-> 200, body |-> [data |-> GetFindings(Val(FindScan(scan_uuid)))]]

\* one scan of user u1 with a client of /ws/{S} and a client of /ws, each
\* of them any user and neither leaving, in a run in which nmap prints no
\* line
NextAccess ==
  \/ OrchestratorNext \/ ScannerQuietNext \/ WatcherLoopNext
  \/ WsScanConnect \/ WsScanMessage \/ WsScansConnect(Users) \/ WsScansPass

SpecAccess == Init /\ [][NextAccess]_vars

\* messages of other publishers on the channels of S: a progress payload
\* that is no number, a status payload that is not JSON, a status payload
\* that is JSON and no object
ForeignMessages ==
  << [channel |-> ProgressChannel, data |-> "abc"],
     [channel |-> StatusChannel, data |-> NotJsonBody],
     [channel |-> StatusChannel, data |-> JsonNumberText] >>
\* redis PUBLISH by another client while the connection is subscribed
ForeignPublish(messages) ==
  /\ GatewaySubscribed
  /\ Len(g_inbox) < MaxInbox
  /\ \E i \in 1..Len(messages) :
       LET message == messages[i] IN
         IF message.channel = ProgressChannel
           THEN PublishProgress(message.data)
           ELSE ToGateway(message.channel, message.data) /\ UNCHANGED w_inbox
  /\ UNCHANGED <<now, dbvars, kvvars, status_chan, ovars, svars, hvars, wvars, g_pc,
                 sent_messages, g_frames, g_client, lvars, cvars, dvars>>

\* one client of /ws/{S} while the scanner and other publishers publish on
\* the channels and the watcher has not started
NextForeign ==
  \/ OrchestratorNext \/ ScannerNext
  \/ WsScanNext \/ WsScanMessageRaises \/ ForeignPublish(ForeignMessages)

SpecForeign == Init /\ [][NextForeign]_vars

\* the scan lifecycle, without clock and callback, in a run in which nmap
\* prints no line, with one client of /ws/{S} and another publisher of
\* status payloads that are no objects
NextStream ==
  \/ OrchestratorNext \/ ScannerQuietNext \/ WatcherLoopNext
  \/ WsScanNext \/ WsScanMessageRaises \/ ForeignPublish(Tail(Tail(ForeignMessages)))

SpecStream == Init /\ [][NextStream]_vars

\* the requests of any user for the URL, its host name twice and an empty
\* string
UrlRequests == [user : Users, targets : {ListUrl}]

\* a request of any user and then a request of any user for the URL list,
\* the second return of the handler aside: the targets of the second are
\* collected while the first scan runs; the scans run one after the other,
\* at one instant and without lines of nmap
NextTargets ==
  \/ StartScan(Requests) \/ StartNextScan(UrlRequests)
  \/ OrchestratorSteps \/ CreateNextScanEntry
  \/ ScannerQuietNext \/ WatcherLoopNext

SpecTargets == Init /\ [][NextTargets]_vars

\* the scan lifecycle at one instant, with requests to the webhook of any
\* sender
NextHook ==
  OrchestratorNext \/ ScannerNext \/ ScanHook \/ ScanHookForeign \/ WatcherLoopNext

SpecHook == Init /\ [][NextHook]_vars

\* two scans of one plain address, the first of user u1 and the second of
\* any user, one after the other, in runs in which nmap prints no line, with
\* user u1 as client of /ws?keycloak_uuid= for any user
PlainRequests == { [user |-> user, targets |-> ListPlain] : user \in Users }
NextList ==
  \/ StartScan({PlainRequest}) \/ StartNextScan(PlainRequests)
  \/ OrchestratorSteps \/ CreateNextScanEntry
  \/ ScannerQuietNext \/ WatcherLoopNext
  \/ WsScansConnect({"u1"}) \/ WsScansPass

SpecList == Init /\ [][NextList]_vars

\* the clock beyond the last instant the model counts: now stays at MaxTime
\* and the time of the last message falls back instead, down to an age at
\* which the timer of the watcher has expired for good
OldestMessageTime == MaxTime - InactivityTimeout - TickSeconds
LateTick ==
  /\ now = MaxTime
  /\ last_message_time > OldestMessageTime
  /\ last_message_time' =
       IF last_message_time - TickSeconds > OldestMessageTime
         THEN last_message_time - TickSeconds ELSE OldestMessageTime
  /\ UNCHANGED <<now, dbvars, kvvars, chanvars, ovars, svars, hvars, w_pc, last_status,
                 current_status, started_at_iso, finished_at_iso, db2_output, db2_result,
                 db2_targets, w_exit, gvars, lvars, cvars, dvars>>

\* the scan lifecycle with a clock that never stops; the request handler and
\* the Celery worker run whenever they have a step to take and time passes
NextLive == Tick \/ LateTick \/ OrchestratorNext \/ ScannerNext \/ ScanHook \/ WatcherNext

SpecLive ==
  /\ Init /\ [][NextLive]_vars
  /\ WF_vars(Tick \/ LateTick)
  /\ WF_vars(OrchestratorNext)
  /\ WF_vars(WatcherNext)

\* ------------------------------------------------- watch_scan, exceptions
\* r.get(scan:{S}) raises (redis.ConnectionError): the loop has no except
\* clause, the exception passes the finally block and ends the task
WatchGetStatusRaises ==
  /\ w_pc = "get_status"
  /\ w_pc' = "done" /\ w_exit' = "raised"
  /\ UNCHANGED <<now, dbvars, kvvars, chanvars, ovars, svars, hvars, last_status,
                 last_message_time, current_status, started_at_iso, finished_at_iso,
                 db2_output, db2_result, db2_targets, gvars, lvars, cvars, dvars>>

\* the query or the commit of update_scan_status raises: nothing is
\* committed and the exception ends the task
WatchUpdateRaises ==
  /\ w_pc = "update"
  /\ w_pc' = "done" /\ w_exit' = "raised"
  /\ UNCHANGED <<now, dbvars, kvvars, chanvars, ovars, svars, hvars, last_status,
                 last_message_time, current_status, started_at_iso, finished_at_iso,
                 db2_output, db2_result, db2_targets, gvars, lvars, cvars, dvars>>

WatcherFault == WatchGetStatusRaises \/ WatchUpdateRaises

\* the scan lifecycle with Redis and MySQL errors in the watcher
NextFaults == Next \/ WatcherFault

SpecFaults == Init /\ [][NextFaults]_vars

\* the scan lifecycle with a callback that is delivered more than once
NextRedeliver == Next \/ ScanHookAgain

SpecRedeliver == Init /\ [][NextRedeliver]_vars

\* ================================================================= claims

\* C1: the DB status of the scan only changes pending->running,
\* pending->completed, pending->failed, running->completed or
\* running->failed; a completed or failed status never changes again.
AllowedTransitions ==
  {<<PENDING, RUNNING>>, <<PENDING, COMPLETED>>, <<PENDING, FAILED>>,
   <<RUNNING, COMPLETED>>, <<RUNNING, FAILED>>}
C1_StatusMonotonic ==
  [][(scan_exists /\ scan'.status # scan.status)
       => <<scan.status, scan'.status>> \in AllowedTransitions]_vars

\* C2: only steps of the watcher change status, started_at, finished_at or
\* result of the scans row once the row exists.
WatcherColumns(row) == <<row.status, row.started_at, row.finished_at, row.result>>
C2_WatcherSingleWriter ==
  [][(scan_exists /\ WatcherColumns(scan') # WatcherColumns(scan)) => WatcherNext]_vars

\* C3: when the watcher has observed running and its timer shows more than
\* 120 seconds without a numeric progress message, its next step sets the
\* DB status to failed, sets finished_at and ends the watcher.
C3_InactivityFails ==
  [][(/\ w_pc = "sleep" /\ w_pc' # "sleep"
      /\ last_status = RUNNING
      /\ now - last_message_time > InactivityTimeout)
       => (scan'.status = FAILED /\ scan'.finished_at # NoTime /\ w_pc' = "done")]_vars
C3_Witness ==
  /\ w_pc = "done" /\ w_exit = "inactivity" /\ last_status = RUNNING
  /\ scan.status = FAILED /\ scan.finished_at # NoTime

\* C4: every step of the watcher that changes the DB status is followed by
\* the watcher's publication on {S}:status of a message with the new status.
C4_TransitionPublished ==
  [][(WatcherNext /\ scan'.status # scan.status)
       => (w_pc' = "publish" /\ current_status' = scan'.status)]_vars

\* C5: while the watcher has not finished, scan:{S} reads completed only
\* when scan_results:{S} is present.
C5_ResultsBeforeCompleted ==
  (kv_status = COMPLETED /\ w_pc # "done") => kv_results # Null

\* C6: when the watcher has handled completed with a non-empty list
\* scan_output:{S} and has left, the committed scans.output is the stored
\* lines joined by newline, so the list is gone only with its content
\* committed.
C6_OutputPersisted ==
  (w_pc = "done" /\ w_exit = "terminal" /\ current_status = COMPLETED /\ s_stored # <<>>)
    => scan.output = Some(JoinLines(s_stored))

\* C7: scans.result and the findings derived from it are committed
\* together: the committed findings are those of the committed result in
\* every state; the committed result is the blob of scan_results:{S}; and
\* the key is gone after a successful run only when the result is committed.
C7_ResultsCommittedTogether ==
  /\ findings = IF scan.result = Null THEN <<>>
                ELSE process_scan_results(JsonLoads(Val(scan.result)), targets,
                                          scan.user_id, <<>>)
  /\ (scan.result # Null /\ kv_results # Null) => scan.result = kv_results
  /\ (s_pc = "returned" /\ kv_results = Null) => scan.result # Null
C7_Witness ==
  /\ w_pc = "done" /\ kv_results = Null
  /\ scan.result # Null /\ Len(findings) = 2

\* C8: started_at is written at most once, and only in a step that takes
\* the DB status from pending to running.
C8_StartedAtOnce ==
  [][(scan_exists /\ scan'.started_at # scan.started_at)
       => (scan.started_at = NoTime /\ scan.status = PENDING /\ scan'.status = RUNNING)]_vars

\* C9: finished_at is written at most once, in the step that first makes
\* the DB status completed or failed; a row whose status is completed or
\* failed has finished_at set.
C9_FinishedAtSet ==
  /\ []((scan_exists /\ scan.status \in Terminal) => scan.finished_at # NoTime)
  /\ [][(scan_exists /\ scan'.finished_at # scan.finished_at)
          => (/\ scan.finished_at = NoTime
              /\ scan.status \notin Terminal /\ scan'.status \in Terminal)]_vars

\* C10: when the watcher publishes running, completed or failed on
\* {S}:status, the committed DB status is that status.
C10_StatusCommittedBeforePublish ==
  [][(Len(status_chan') = Len(status_chan) + 1
      /\ status_chan'[Len(status_chan')].status \in StatusMapping)
       => scan.status = status_chan'[Len(status_chan')].status]_vars

C12_ErrorsSwallowed ==
  /\ [][WatcherFault => w_pc' = "sleep"]_vars
  /\ [](w_pc = "done" => scan.status \in Terminal)

\* C13: the findings that GET /api/scans/{uuid}/findings returns for a scan
\* whose DB status is failed are none, for S and for the scan before it.
C13_FailedScanNoFindings ==
  /\ (scan_exists /\ scan.status = FAILED) => GetFindings(scan) = <<>>
  /\ (prev_exists /\ prev.status = FAILED) => GetFindings(prev) = <<>>

\* C14: the findings that a commit of process_scan_results adds reference
\* targets of the user of the scan, whether the target was found or added.
C14_FindingTargetOwner ==
  [][\A i \in (Len(findings) + 1)..Len(findings') :
        targets'[findings'[i].target].user_id = scan.user_id]_vars
C14_Witness ==
  /\ scan.user_id = "u1"
  /\ \E i \in 1..Len(findings) :
       /\ targets[findings[i].target] = [user_id |-> "u1", name |-> NameB]
       /\ findings[i].target \notin o_inserted
       /\ FindTarget(targets, "u2", NameB) \in 1..(findings[i].target - 1)

\* C15: the name of a target row that start_scan inserts is an element of
\* clean_target_list of the submitted targets.
C15_TargetNamesNormalized ==
  [][GetOrCreateInsert
       => targets'[Len(targets')].name \in clean_target_list(o_req.targets)]_vars

\* C16: no two rows of targets have the same user and name.
C16_TargetUnique ==
  \A i, j \in 1..Len(targets) : targets[i] = targets[j] => i = j

\* C17: the second of two equal requests inserts no target; and once
\* get_or_create_targets has handled all names it has collected one target
\* of the user for each distinct non-empty name of the request.
SameRequestTwice == Len(submitted) = 2 /\ submitted[1] = submitted[2]
TargetsCollected == o_pc \notin {"idle", "insert"} /\ o_names = {}
C17_TargetsReused ==
  /\ SameRequestTwice => o_pc # "insert"
  /\ TargetsCollected
       => /\ { targets[id].name : id \in o_inserted } = TargetNames(o_req.targets)
          /\ Cardinality(o_inserted) = Cardinality(TargetNames(o_req.targets))
          /\ \A id \in o_inserted : targets[id].user_id = o_req.user
C17_Witness ==
  /\ SameRequestTwice /\ submitted[1].targets = ListUrl
  /\ prev_exists /\ scan_exists /\ prev.targets = scan.targets
  /\ o_pc = "done" /\ Len(targets) = 2

\* C18: when the POST to the scanner has failed, the scans row exists and
\* scan:{S} reads failed; the handler goes on to dispatch the watcher and
\* returns the scan UUID, never an error; and the DB status becomes failed.
SubmitFailed == o_pc \in {"dispatch", "done"} /\ s_pc = "idle"
C18_SubmitFailureHandled ==
  /\ [](SubmitFailed => scan_exists /\ kv_status = FAILED)
  /\ SubmitFailed ~> (o_response = Some([scan_uuid |-> "S"]) /\ w_pc # "idle")
  /\ [](o_response # Null => o_response = Some([scan_uuid |-> "S"]))
  /\ SubmitFailed ~> (scan.status = FAILED)
C18_Witness ==
  /\ SubmitFailed /\ o_response = Some([scan_uuid |-> "S"])
  /\ w_pc = "done" /\ w_exit = "terminal" /\ scan.status = FAILED

\* C19: a first request whose targets are none after clean_target_list is
\* answered with an error and leaves no scans row, no targets row, no key
\* scan:{S}, no scanner job and no watcher.
C19_EmptyTargetsRejected ==
  (Len(submitted) = 1 /\ clean_target_list(o_req.targets) = {})
    => /\ ~scan_exists /\ targets = <<>> /\ kv_status = None
       /\ s_pc = "idle" /\ w_pc = "idle"
       /\ o_response # Null => "status_code" \in DOMAIN Val(o_response)

\* C20: every request to the webhook is answered with status 200; when the
\* body is not parsed or its scan_id is the uuid of no scan, the response
\* body holds an error and no row of the database changes.
HookRejects(body) ==
  RequestJson(body) = Null \/ ~HookFindsScan(Val(RequestJson(body)))
C20_HookAlways200 ==
  [][hooks' # hooks
       => /\ Val(hook_response').status_code = 200
          /\ HookRejects(Val(hook_body'))
               => /\ "error" \in DOMAIN Val(hook_response').body
                  /\ UNCHANGED dbvars]_vars
C20_Witness ==
  /\ scan_exists /\ hook_body = Some(NotJsonBody) /\ hook_response = Some(HookFailed)

\* C21: a second delivery of the callback with the same body leaves the
\* database as the first delivery and the watcher have left it: once the
\* watcher has ended, the scans row (status, timestamps) and the findings are
\* the same after the repeated delivery as before it
C21_HookIdempotent ==
  [][(ScanHookAgain /\ w_pc = "done") => (scan' = scan /\ findings' = findings)]_vars

\* C22: within one connection to /ws/{S} an output frame carries a payload
\* that no earlier output frame of the connection carries, however many
\* messages the channel has delivered
C22_NoOutputTwice ==
  [][\A i \in (Len(g_frames) + 1)..Len(g_frames') :
       g_frames'[i].type = "output"
         => \A j \in 1..Len(g_frames) : g_frames[j] # g_frames'[i]]_vars

\* C23: a pass of the loop of /ws/{S} that takes a message off one of the
\* three channels leaves the connection open, whatever the payload is
C23_PayloadsDropped ==
  [][(WsScanMessage \/ WsScanMessageRaises) => g_pc' = "open"]_vars

\* C24: scan data reaches the owner of the scan only: each of the three GET
\* endpoints answers 404 for a uuid without row, 403 for a user who does not
\* own the row and 200 for the owner, and the frames of /ws/{S} and of /ws
\* go to a client who owns the scans they are about
HttpOwnerOnly(response, user, scan_uuid) ==
  /\ FindScan(scan_uuid) = Null => response.status_code = 404
  /\ (FindScan(scan_uuid) # Null /\ Val(FindScan(scan_uuid)).user_id # user)
       => response.status_code = 403
  /\ (FindScan(scan_uuid) # Null /\ Val(FindScan(scan_uuid)).user_id = user)
       => response.status_code = 200
C24_OwnerOnly ==
  /\ \A user \in Users, scan_uuid \in ScanUuids :
       /\ HttpOwnerOnly(get_scan_by_uuid(user, scan_uuid), user, scan_uuid)
       /\ HttpOwnerOnly(get_scan_status(user, scan_uuid), user, scan_uuid)
       /\ HttpOwnerOnly(get_findings_by_scan_uuid(user, scan_uuid), user, scan_uuid)
  /\ g_frames # <<>> => g_client = scan.user_id
  /\ \A i \in 1..Len(l_frames) :
       Val(FindScan(l_frames[i].scan_uuid)).user_id = l_conn.client

\* C25: no element of the list the normalizer returns is empty, is a private
\* address, is a private network in CIDR notation or is a range A.B.C.D-E
\* or A.B.C.D-E.F.G.H of two addresses one of which is private
ParsesAsPrivateRange(target) ==
  /\ Len(target) = 3 /\ target[2] = "-"
  /\ ValidAddress(target[1])
  /\ target[3] \in DOMAIN Octets \cup DOMAIN Numbers
  /\ EndValid(target)
  /\ AddressIsPrivate(Octets[target[1]]) \/ AddressIsPrivate(EndOctets(target))
C25_NoPrivateTargets ==
  \A i \in 1..Len(o_payload) :
    /\ o_payload[i] # <<>>
    /\ ~(IsIpAddress(o_payload[i]) /\ AddressIsPrivate(Octets[o_payload[i][1]]))
    /\ ~IsPrivateNetwork(o_payload[i])
    /\ ~ParsesAsPrivateRange(o_payload[i])
\* a request with a range that ends in a private address and a public
\* network: the network alone is returned
C25_Witness ==
  /\ o_pc = "targets"
  /\ o_req.targets = << <<"8.8.8.8", "-", "10.0.0.1">>, <<"8.8.8.0", "/", "24">> >>
  /\ o_payload = << <<"8.8.8.0", "/", "24">> >>

\* C26: the list the normalizer returns holds the kept targets in the order
\* of their first occurrence in the request, and the normalizer returns the
\* same list when it is given its own result
RECURSIVE KeptInOrder(_, _)
KeptInOrder(request_targets, seen) ==
  IF request_targets = <<>> THEN <<>>
  ELSE LET target == NormalizeTarget(Head(request_targets)) IN
         IF Kept(target) /\ target \notin seen
           THEN <<target>> \o KeptInOrder(Tail(request_targets), seen \cup {target})
           ELSE KeptInOrder(Tail(request_targets), seen)
C26_IdempotentInOrder ==
  /\ o_payload = KeptInOrder(o_req.targets, {})
  /\ \A again \in ListOfSet(clean_target_list(o_payload)) : again = o_payload

\* C27: one pass of the loop of /ws sends one scan_update frame for each scan
\* of the user of the request whose row is running or failed and none for
\* any other scan, and leaves the rows, the keys and the channels as they are
FramesFor(frames, scan_uuid) ==
  Cardinality({ i \in 1..Len(frames) : frames[i].scan_uuid = scan_uuid })
RunningOrFailed(exists, row, user) ==
  exists /\ row.user_id = user /\ row.status \in {RUNNING, FAILED}
C27_ListFrames ==
  [][WsScansPass =>
       /\ \A i \in 1..Len(l_frames') : l_frames'[i].type = "scan_update"
       /\ FramesFor(l_frames', "S")
            = IF RunningOrFailed(scan_exists, scan, l_conn.keycloak_uuid) THEN 1 ELSE 0
       /\ FramesFor(l_frames', "P")
            = IF RunningOrFailed(prev_exists, prev, l_conn.keycloak_uuid) THEN 1 ELSE 0
       /\ Len(l_frames') = FramesFor(l_frames', "S") + FramesFor(l_frames', "P")
       /\ UNCHANGED <<dbvars, kvvars, chanvars, g_inbox>>]_vars
\* a pass for a user with a failed scan and a running scan, while the other
\* user would get none
C27_Witness ==
  /\ prev_exists /\ prev.status = FAILED /\ scan.status = RUNNING
  /\ prev.user_id = scan.user_id /\ l_conn.keycloak_uuid = scan.user_id
  /\ Len(l_frames) = 2

\* C28: a client that connects to /ws/{S}, is served and leaves, or whose
\* handler ends on an error, changes neither the rows, nor the keys, nor the
\* channels of the watcher, nor the orchestrator, the scanner and the
\* watcher, so the scan ends as it ends without a client; and a handler
\* that has ended is subscribed to none of the channels
GatewayStep == WsScanConnect \/ WsScanMessage \/ WsScanMessageRaises \/ WsScanDisconnect
INFO == "info"
LOW == "low"
MEDIUM == "medium"
HIGH == "high"
CRITICAL == "critical"

\* the value of p['port']: a Python int, a str given by its characters (a
\* digit is its value, Letter is any other character) or None. The scanner
\* writes the XML attribute portid, a str
Letter == 10
IntPort(n) == [type |-> "int", value |-> <<n>>]
StrPort(characters) == [type |-> "str", value |-> characters]
NonePort == [type |-> "none", value |-> <<>>]

\* int(p['port']) raises ValueError or TypeError
IntRaises(port) ==
  /\ port.type = "str"
  /\ \/ port.value = <<>>
     \/ \E i \in 1..Len(port.value) : port.value[i] >= Letter
\* int(p['port']): an int is itself, a str of digits is its decimal value
RECURSIVE Decimal(_)
Decimal(characters) ==
  IF characters = <<>> THEN 0
  ELSE 10 * Decimal(SubSeq(characters, 1, Len(characters) - 1))
         + characters[Len(characters)]
int(port) == IF port.type = "int" THEN port.value[1] ELSE Decimal(port.value)

\* PORT_RULES: the ports of the table and their severities
PORT_RULES ==
  [port \in {22, 23, 21, 80, 443, 25, 3389, 445, 139, 135, 111, 110, 143,
             993, 995, 587, 465, 563} |->
     CASE port \in {23, 3389} -> HIGH
       [] port \in {80, 443} -> LOW
       [] OTHER -> MEDIUM]

\* PORT_RULES.get(port, (Severity.LOW, ...)): the keys of the table are
\* ints, and a str is equal to none of them
RulesGet(port) ==
  IF port.type = "int" /\ port.value[1] \in DOMAIN PORT_RULES
    THEN PORT_RULES[port.value[1]] ELSE LOW

\* str.lower() on the states of the model
Lower(state) == IF state = "OPEN" THEN "open" ELSE state

\* classify_port: the severity, None for a state other than open and closed
classify_port(p_info) ==
  LET state == Lower(IF p_info.state = "" THEN "unknown" ELSE p_info.state)
  IN IF state \notin {"open", "closed"} THEN None
     ELSE IF state = "closed" THEN INFO
     ELSE RulesGet(p_info.port)

\* a timestamp of an ssl-cert output: a date and time with seconds, one
\* without seconds, or a text that is no ISO timestamp; day is its date
Timestamp(form, day) == [form |-> form, day |-> day]
Unparsed == -1
\* normalize: ':00' is appended when the time has two components
normalize(ts) == IF ts.form = "minutes" THEN [ts EXCEPT !.form = "seconds"] ELSE ts
\* datetime.fromisoformat raises ValueError
IsoRaises(ts) == ts.form = "text"

\* the value after the label in the last line of the output that holds the
\* label, Null without such a line
RECURSIVE LastValue(_, _)
LastValue(output, label) ==
  IF output = <<>> THEN Null
  ELSE IF output[Len(output)].label = label THEN Some(output[Len(output)].value)
  ELSE LastValue(SubSeq(output, 1, Len(output) - 1), label)

\* SCRIPT_RULES.get(name) for the scripts of the model: ssl-cert has the
\* rule None, http-title has a rule, banner has no entry
SCRIPT_RULES == [name \in {"ssl-cert", "http-title", "http-sql-injection"} |->
                   IF name = "http-title" THEN INFO ELSE None]

ThirtyDays == 30

\* classify_script, the ssl-cert branch: the severity for the two values
SslCertSeverity(not_valid_before, not_valid_after, utcnow) ==
  IF \/ not_valid_before # Null /\ IsoRaises(normalize(Val(not_valid_before)))
     \/ not_valid_after # Null /\ IsoRaises(normalize(Val(not_valid_after)))
    THEN INFO
  ELSE IF not_valid_before # Null /\ not_valid_after # Null
    THEN LET before == normalize(Val(not_valid_before)).day
             after == normalize(Val(not_valid_after)).day
         IN IF before <= utcnow /\ utcnow <= after THEN INFO
            ELSE IF after - utcnow < ThirtyDays THEN MEDIUM
            ELSE HIGH
  ELSE INFO

\* the lines of an http-sql-injection output in the model, and which of the
\* two words line.lower() holds
SqlLines == {"Possible sqli for queries:", "VULNERABLE: id=1",
             "Spidering limited to 200 pages", "Possible: form is vulnerable"}
HoldsVulnerable(line) == line \in {"VULNERABLE: id=1", "Possible: form is vulnerable"}
HoldsPossible(line) == line \in {"Possible sqli for queries:", "Possible: form is vulnerable"}
\* classify_script, the http-sql-injection branch: the loop returns at the
\* first line that holds one of the two words
RECURSIVE SqlInjectionSeverity(_)
SqlInjectionSeverity(output) ==
  IF output = <<>> THEN HIGH
  ELSE IF HoldsVulnerable(Head(output).label) THEN CRITICAL
  ELSE IF HoldsPossible(Head(output).label) THEN HIGH
  ELSE SqlInjectionSeverity(Tail(output))

\* classify_script: the severity
classify_script(script, utcnow) ==
  IF script.id \in DOMAIN SCRIPT_RULES /\ SCRIPT_RULES[script.id] # None
    THEN SCRIPT_RULES[script.id]
  ELSE IF script.id = "ssl-cert"
    THEN SslCertSeverity(LastValue(script.output, "Not valid before:"),
                         LastValue(script.output, "Not valid after:"), utcnow)
  ELSE IF script.id = "http-sql-injection"
    THEN SqlInjectionSeverity(script.output)
  ELSE INFO

\* the Finding rows of a port and of a script of a port
PortFinding(port_num, state, sev) ==
  [kind |-> "port", port |-> port_num, port_state |-> state, severity |-> sev,
   script |-> None]
ScriptFinding(port_num, state, script, utcnow) ==
  [kind |-> "script", port |-> port_num, port_state |-> state,
   severity |-> classify_script(script, utcnow), script |-> script.id]

\* process_scan_results, one turn of the loop over the ports: nothing for a
\* port that is None or no number and for a state other than open and
\* closed, else the port finding and one finding per script
OnePort(p, utcnow) ==
  IF p.port.type = "none" \/ IntRaises(p.port) THEN <<>>
  ELSE IF Lower(p.state) \notin {"open", "closed"} THEN <<>>
  ELSE IF classify_port(p) = None THEN <<>>
  ELSE <<PortFinding(int(p.port), Lower(p.state), classify_port(p))>>
         \o [i \in 1..Len(p.scripts) |->
               ScriptFinding(int(p.port), Lower(p.state), p.scripts[i], utcnow)]
RECURSIVE PortFindings(_, _)
PortFindings(ports, utcnow) ==
  IF ports = <<>> THEN <<>>
  ELSE OnePort(Head(ports), utcnow) \o PortFindings(Tail(ports), utcnow)

\* ---- the inputs of the classifier
MaxPorts == 2
MaxDay == 4
DayLength == 20
Days == { k * DayLength : k \in 0..MaxDay }

NoScripts == <<>>
TitleScript == <<[id |-> "http-title", output |-> <<>>]>>
BannerScript == <<[id |-> "banner", output |-> <<>>]>>
PortValues == {IntPort(22), IntPort(23), IntPort(80), IntPort(443), IntPort(3389),
               IntPort(8080), StrPort(<<2, 2>>), StrPort(<<Letter>>), NonePort}
PortStates == {"open", "closed", "filtered", "OPEN"}
PortInputs == [port : PortValues, state : PortStates, scripts : {NoScripts, TitleScript}]
PortLists == UNION { [1..n -> PortInputs] : n \in 0..MaxPorts }

\* an ssl-cert script on port 443: no line, one of the two lines, or both
Timestamps == { Timestamp(form, day) : form \in {"seconds", "minutes"}, day \in Days }
                 \cup {Timestamp("text", Unparsed)}
BeforeLine(ts) == [label |-> "Not valid before:", value |-> ts]
AfterLine(ts) == [label |-> "Not valid after:", value |-> ts]
CertOutputs ==
  {<<>>} \cup { <<BeforeLine(ts)>> : ts \in Timestamps }
         \cup { <<AfterLine(ts)>> : ts \in Timestamps }
         \cup { <<BeforeLine(b), AfterLine(a)>> : b \in Timestamps, a \in Timestamps }
CertPort(output, state) ==
  [port |-> StrPort(<<4, 4, 3>>), state |-> state,
   scripts |-> <<[id |-> "ssl-cert", output |-> output]>> \o BannerScript]

\* the watcher hands the ports of a host to the loop
ReceivePorts ==
  /\ c_pc = "idle"
  /\ \E ports \in PortLists : c_ports' = ports
  /\ c_now' = 0
  /\ c_pc' = "ports"
  /\ UNCHANGED <<now, dbvars, kvvars, chanvars, ovars, svars, hvars, wvars, gvars, lvars,
                 c_findings, c_host, dvars>>

\* the watcher hands a port with a certificate to the loop, at any day
ReceiveCertificate ==
  /\ c_pc = "idle"
  /\ \E output \in CertOutputs, state \in {"open", "filtered"} :
       c_ports' = <<CertPort(output, state)>>
  /\ \E day \in Days : c_now' = day
  /\ c_pc' = "ports"
  /\ UNCHANGED <<now, dbvars, kvvars, chanvars, ovars, svars, hvars, wvars, gvars, lvars,
                 c_findings, c_host, dvars>>

\* the loop over the ports
ProcessPorts ==
  /\ c_pc = "ports"
  /\ c_findings' = PortFindings(c_ports, c_now)
  /\ c_pc' = "done"
  /\ UNCHANGED <<now, dbvars, kvvars, chanvars, ovars, svars, hvars, wvars, gvars, lvars,
                 c_ports, c_now, c_host, dvars>>

NextClassifier == ReceivePorts \/ ReceiveCertificate \/ ProcessPorts
SpecClassifier == Init /\ [][NextClassifier]_vars

\* C29: the port findings of a host are, in the order of the ports, one for
\* each port whose state is open or closed and none for any other port:
\* INFO for a closed port whatever its number, the severity of the port rule
\* table for an open port whose number is in the table (22 MEDIUM, 23 HIGH,
\* 3389 HIGH, 80 and 443 LOW), LOW for an open port whose number is not in
\* it; and the script findings are those of the scripts of these ports. A
\* port that has no number is left out of the statement
HasNumber(p) == p.port.type # "none" /\ ~IntRaises(p.port)
OpenOrClosed(ports) ==
  SelectSeq(ports, LAMBDA p : HasNumber(p) /\ Lower(p.state) \in {"open", "closed"})
StatedSeverity(p) ==
  IF Lower(p.state) = "closed" THEN INFO
  ELSE IF int(p.port) \in DOMAIN PORT_RULES THEN PORT_RULES[int(p.port)]
  ELSE LOW
RECURSIVE ScriptCount(_)
ScriptCount(ports) ==
  IF ports = <<>> THEN 0 ELSE Len(Head(ports).scripts) + ScriptCount(Tail(ports))
C29_PortFindings ==
  /\ PORT_RULES[22] = MEDIUM /\ PORT_RULES[23] = HIGH /\ PORT_RULES[3389] = HIGH
  /\ PORT_RULES[80] = LOW /\ PORT_RULES[443] = LOW
  /\ c_pc = "done" =>
       LET stated == OpenOrClosed(c_ports)
           rows == SelectSeq(c_findings, LAMBDA f : f.kind = "port")
       IN /\ Len(rows) = Len(stated)
          /\ \A i \in 1..Len(rows) :
               /\ rows[i].port = int(stated[i].port)
               /\ rows[i].port_state = Lower(stated[i].state)
               /\ rows[i].severity = StatedSeverity(stated[i])
          /\ Len(c_findings) = Len(stated) + ScriptCount(stated)

\* C30: the script finding of an ssl-cert output on an open port has
\* severity INFO when the two times parse and now lies in [before, after],
\* HIGH when they parse and now is later than after, MEDIUM when they parse,
\* now is in neither of these cases and after minus now is less than 30
\* days, and INFO when a time does not parse
CertFindings == SelectSeq(c_findings, LAMBDA f : f.script = "ssl-cert")
C30_CertSeverity ==
  (c_pc = "done" /\ CertFindings # <<>>) =>
    LET output == c_ports[1].scripts[1].output
        before == LastValue(output, "Not valid before:")
        after == LastValue(output, "Not valid after:")
        severity == CertFindings[1].severity
    IN /\ Len(CertFindings) = 1
       /\ (before # Null /\ after # Null) =>
            IF Val(before).form = "text" \/ Val(after).form = "text"
              THEN severity = INFO
            ELSE IF Val(before).day <= c_now /\ c_now <= Val(after).day
              THEN severity = INFO
            ELSE IF c_now > Val(after).day
              THEN severity = HIGH
            ELSE (Val(after).day - c_now < ThirtyDays => severity = MEDIUM)

\* ------------------------------------------- the classifier, host records
\* a field of a host record: a key that is absent is Null; a key that is
\* present holds the JSON null, or an object or array. An os_info object is
\* the words of its name, lowercased by the table; a traceroute is its hops
Absent == Null
JsonNull == [null |-> TRUE, value |-> <<>>]
JsonValue(v) == [null |-> FALSE, value |-> v]
\* host.get(key, default)
Get(field, default) == IF field = Absent THEN default ELSE Val(field)

LowerWord(word) ==
  CASE word = "XP" -> "xp" [] word = "Windows" -> "windows"
    [] word = "Linux" -> "linux" [] OTHER -> word
\* classify_os: os_info.get raises AttributeError on None
classify_os_raises(os_info) == os_info.null
\* classify_os: HIGH for a name that holds 'xp', '2003', 'centos 5' or
\* 'debian 7' in lower case, else INFO; the names of the model hold whole
\* words only
classify_os(os_info) ==
  IF \E i \in 1..Len(os_info.value) : LowerWord(os_info.value[i]) \in {"xp", "2003"}
    THEN HIGH ELSE INFO
\* classify_traceroute: both branches return INFO
classify_traceroute(trace) == INFO

NoPort == -1
HostRow(kind, sev) ==
  [kind |-> kind, port |-> NoPort, port_state |-> None, severity |-> sev, script |-> None]

\* process_scan_results, one turn of the loop over the hosts: no finding
\* for a host without name; else the OS finding of host.get('os_info', {}),
\* the Traceroute finding of host.get('traceroute', []) and the findings of
\* the ports
HostRaises(host) ==
  /\ HostName(host) # <<>>
  /\ classify_os_raises(Get(host.os_info, JsonValue(<<>>)))
HostRows(host, ports, utcnow) ==
  IF HostName(host) = <<>> THEN <<>>
  ELSE << HostRow("os", classify_os(Get(host.os_info, JsonValue(<<>>)))),
          HostRow("traceroute", classify_traceroute(Get(host.traceroute, JsonValue(<<>>)))) >>
         \o PortFindings(ports, utcnow)

\* the host records of a result list
OsInfos == {Absent, Some(JsonNull), Some(JsonValue(<<>>)),
            Some(JsonValue(<<"Windows", "XP">>)), Some(JsonValue(<<"Linux">>))}
Traceroutes == {Absent, Some(JsonNull), Some(JsonValue(<<>>)),
                Some(JsonValue(<<"10.0.0.1">>))}
HostRecords ==
  [ip_address : {<<>>, IpA}, hostname : {<<>>, NameB},
   os_info : OsInfos, traceroute : Traceroutes]
HostPorts == { <<>>, <<[port |-> StrPort(<<8, 0>>), state |-> "open", scripts |-> NoScripts]>> }

\* the watcher hands a host record to the loop
ReceiveHost ==
  /\ c_pc = "idle"
  /\ \E host \in HostRecords : c_host' = host
  /\ \E ports \in HostPorts : c_ports' = ports
  /\ c_now' = 0
  /\ c_pc' = "host"
  /\ UNCHANGED <<now, dbvars, kvvars, chanvars, ovars, svars, hvars, wvars, gvars, lvars,
                 c_findings, dvars>>

\* the turn of the loop for the host
ProcessHost ==
  /\ c_pc = "host"
  /\ ~HostRaises(c_host)
  /\ c_findings' = HostRows(c_host, c_ports, c_now)
  /\ c_pc' = "host_done"
  /\ UNCHANGED <<now, dbvars, kvvars, chanvars, ovars, svars, hvars, wvars, gvars, lvars,
                 c_ports, c_now, c_host, dvars>>

\* the turn of the loop raises and process_scan_results ends
ProcessHostRaises ==
  /\ c_pc = "host"
  /\ HostRaises(c_host)
  /\ c_pc' = "raised"
  /\ UNCHANGED <<now, dbvars, kvvars, chanvars, ovars, svars, hvars, wvars, gvars, lvars,
                 c_ports, c_now, c_findings, c_host, dvars>>

NextHostRecords == ReceiveHost \/ ProcessHost \/ ProcessHostRaises
SpecHostRecords == Init /\ [][NextHostRecords]_vars

\* C31: the classifier ends without an error for every host record; a host
\* without os_info gets no OS finding, a host without traceroute gets no
\* Traceroute finding, and a host with neither ip_address nor hostname
\* gets no finding
KindCount(rows, kind) == Len(SelectSeq(rows, LAMBDA f : f.kind = kind))
C31_AbsentFieldsSkipped ==
  /\ c_pc # "raised"
  /\ c_pc = "host_done" =>
       /\ c_host.os_info = Absent => KindCount(c_findings, "os") = 0
       /\ c_host.traceroute = Absent => KindCount(c_findings, "traceroute") = 0
       /\ HostName(c_host) = <<>> => c_findings = <<>>

\* C32: the timer of the watcher starts at the step in which the watcher
\* first observes running, and the timer ends the watcher only after it has
\* observed running, so a scan that is still pending is not set to failed
\* by it; a step that observes another status change and a step that reads
\* a message that is no number leave the timer as it is
ObservesRunning == last_status # RUNNING /\ last_status' = RUNNING
C32_TimerFromRunning ==
  [][/\ ObservesRunning => last_message_time' = now'
     /\ WatchInactivity => last_status = RUNNING
     /\ (last_status' # last_status /\ ~ObservesRunning /\ w_pc # "queued")
          => last_message_time' = last_message_time
     /\ (WatchGetMessage /\ w_inbox # <<>> /\ ~IsNumeric(Head(w_inbox)))
          => last_message_time' = last_message_time]_vars

\* C33: a step of the watcher that makes the DB status completed or failed
\* leaves the row with started_at and finished_at set and started_at not
\* later than finished_at, also when the row was pending before the step
WatcherSetsTerminal ==
  /\ WatchUpdate \/ WatchInactivity
  /\ scan.status \notin Terminal /\ scan'.status \in Terminal
C33_StartedBeforeFinished ==
  [][WatcherSetsTerminal
       => /\ scan'.started_at # NoTime /\ scan'.finished_at # NoTime
          /\ scan'.started_at <= scan'.finished_at]_vars

\* C34: when the client of /ws/{S} is sent a status frame with the value
\* completed, the watcher has committed the results of the scan: the row
\* has its result, the lines of scan_output:{S} have been taken into the
\* row, and the commit that adds the findings has been made
ResultsCommitted ==
  /\ scan'.result # Null
  /\ kv_output' = <<>>
  /\ w_pc' \in {"delete_results", "done"}
C34_ResultsBeforeStatusFrame ==
  [][\A i \in (Len(g_frames) + 1)..Len(g_frames') :
       (g_frames'[i].type = "status" /\ g_frames'[i].value = COMPLETED)
          => ResultsCommitted]_vars

\* C35: the findings change only in the commit of the watcher's block for
\* the status completed, that commit is made at most once for a scan,
\* whatever the status key, the deliveries of the callback and the polls of
\* the watcher do, and no finding row is inserted twice
C35_FindingsOnce ==
  /\ [][findings' # findings => WatchProcessResults]_vars
  /\ [][WatchProcessResults => (findings = <<>> /\ scan.result = Null)]_vars
  /\ [](\A i, j \in 1..Len(findings) : findings[i] = findings[j] => i = j)
\* the callback has been delivered twice and the watcher has ended with the
\* findings of one host committed
C35_Witness ==
  /\ hooks = MaxHooks + MaxRedeliveries
  /\ w_pc = "done" /\ w_exit = "terminal"
  /\ scan.result # Null /\ Len(findings) = 2

\* the user of the scan opens the connection to /ws/{S}
WsScanConnectOwner ==
  /\ scan_exists
  /\ WsScanConnect
  /\ g_client' = scan.user_id

\* the scan lifecycle at one instant, without callback, in a run in which
\* nmap prints lines, with the user of the scan as client of /ws/{S}, who
\* connects at any point after the row was created and stays
NextOrder ==
  \/ OrchestratorNext \/ ScannerNext \/ WatcherLoopNext
  \/ WsScanConnectOwner \/ WsScanMessage

SpecOrder == Init /\ [][NextOrder]_vars

\* C36: the frames of a connection to /ws/{S} are sent in the order in which
\* the messages are read: a pass appends at most one frame, the frame of the
\* oldest unread message, with the type of the channel of that message; and
\* the values of the output frames are, in their order, a subsequence of the
\* lines published on {S}
RECURSIVE IsSubsequence(_, _)
IsSubsequence(a, b) ==
  IF a = <<>> THEN TRUE
  ELSE IF b = <<>> THEN FALSE
  ELSE IF Head(a) = Head(b) THEN IsSubsequence(Tail(a), Tail(b))
  ELSE IsSubsequence(a, Tail(b))
OutputValues(frames) ==
  LET sent == SelectSeq(frames, LAMBDA f : f.type = "output")
  IN [i \in 1..Len(sent) |-> sent[i].value]
TypeOfChannel(channel) ==
  IF channel = ProgressChannel THEN "progress"
  ELSE IF channel = StatusChannel THEN "status" ELSE "output"
C36_FramesInOrder ==
  /\ [](IsSubsequence(OutputValues(g_frames), s_stored))
  /\ [][g_frames' # g_frames => (WsScanMessage \/ WsScanConnect)]_vars
  /\ [][WsScanMessage =>
          /\ g_inbox' = Tail(g_inbox)
          /\ Len(g_frames') \in {Len(g_frames), Len(g_frames) + 1}
          /\ SubSeq(g_frames', 1, Len(g_frames)) = g_frames
          /\ Len(g_frames') > Len(g_frames) =>
               g_frames'[Len(g_frames')].type = TypeOfChannel(Head(g_inbox).channel)]_vars
\* a connection that has been sent a progress frame, a status frame and two
\* output frames
C36_Witness ==
  /\ Len(OutputValues(g_frames)) >= 2
  /\ \E i, j \in 1..Len(g_frames) :
       g_frames[i].type = "progress" /\ g_frames[j].type = "status"

\* ------------------------------- the classifier, http-sql-injection
MaxSqlLines == 3
SqlLine(text) == [label |-> text, value |-> Timestamp("text", Unparsed)]
SqlOutputs == UNION { [1..n -> { SqlLine(text) : text \in SqlLines }] : n \in 0..MaxSqlLines }
SqlPort(output, state) ==
  [port |-> StrPort(<<8, 0>>), state |-> state,
   scripts |-> <<[id |-> "http-sql-injection", output |-> output]>>]

\* the watcher hands a port with an http-sql-injection output to the loop
ReceiveInjection ==
  /\ c_pc = "idle"
  /\ \E output \in SqlOutputs, state \in {"open", "closed"} :
       c_ports' = <<SqlPort(output, state)>>
  /\ c_now' = 0
  /\ c_pc' = "ports"
  /\ UNCHANGED <<now, dbvars, kvvars, chanvars, ovars, svars, hvars, wvars, gvars, lvars,
                 c_findings, c_host, dvars>>

NextInjection == ReceiveInjection \/ ProcessPorts
SpecInjection == Init /\ [][NextInjection]_vars

\* C37: the script finding of an http-sql-injection output has severity
\* CRITICAL when some line of the output holds 'vulnerable', in whatever
\* order the lines are, and HIGH only when no line holds it
SqlFindings == SelectSeq(c_findings, LAMBDA f : f.script = "http-sql-injection")
C37_VulnerableIsCritical ==
  (c_pc = "done" /\ SqlFindings # <<>>) =>
    LET output == c_ports[1].scripts[1].output
        vulnerable == \E i \in 1..Len(output) : HoldsVulnerable(output[i].label)
    IN /\ vulnerable => SqlFindings[1].severity = CRITICAL
       /\ SqlFindings[1].severity = HIGH => ~vulnerable

\* ------------------------------------------ the scanner and Redis errors
NextScannerFaults ==
  OrchestratorNext \/ ScannerNext \/ WriteOutputRedisError \/ WatcherLoopNext
SpecScannerFaults == Init /\ [][NextScannerFaults]_vars

\* the step of run a position of the scanner belongs to
StepOfRun(pc) ==
  CASE pc \in {"idle", "queued"} -> 0
    [] pc \in {"first_progress", "urls", "nmap"} -> 1
    [] pc = "parse" -> 2
    [] pc \in {"write_status", "write_progress", "write_results"} -> 3
    [] pc \in {"returned", "raised"} -> 4

\* C38: once scan:{S} was set to running, run ends with scan:{S} completed
\* when it returns and failed when it raises; the steps are taken in the
\* order check-alive, parse-output, write-output, and a step that raises is
\* the last one
C38_RunEndsTerminal ==
  /\ [][(s_pc # "returned" /\ s_pc' = "returned") => kv_status' = COMPLETED]_vars
  /\ [][(StepOfRun(s_pc) \in 1..3 /\ s_pc' = "raised") => kv_status' = FAILED]_vars
  /\ [][(StepOfRun(s_pc') > 0 /\ s_pc' # s_pc) =>
          /\ StepOfRun(s_pc') >= StepOfRun(s_pc)
          /\ s_pc' = "raised" \/ StepOfRun(s_pc') <= StepOfRun(s_pc) + 1
          /\ StepOfRun(s_pc) < 4]_vars

\* ------------------------------------------- the list stream and the timer
\* the scan lifecycle with the clock and without the callback, in a run in
\* which nmap prints no line, while the owner watches the list of scans
NextListTimer ==
  \/ Tick \/ OrchestratorNext \/ ScannerQuietNext \/ WatcherNext
  \/ WsScansConnect({"u1"}) \/ WsScansPass
SpecListTimer == Init /\ [][NextListTimer]_vars

\* C39: after the watcher has exited, scan:{S} holds the terminal status of
\* the row of the scan, and no pass of the list stream sends a frame with
\* status running for a scan whose row is failed
WatcherExited == w_pc = "done" /\ scan_exists /\ scan.status \in Terminal
C39_KvAgreesAfterExit ==
  /\ [](WatcherExited => kv_status = scan.status)
  /\ [][WsScansPass =>
          \A i \in 1..Len(l_frames') :
            (l_frames'[i].scan_uuid = "S" /\ scan.status = FAILED)
              => l_frames'[i].status # RUNNING]_vars

\* --------------------------------------------------------- the deletes
\* delete_scan: 404 without a row, 403 for a row of another user, 400 for a
\* running or pending scan, and 200 after db.delete and db.commit
delete_scan(user, scan_uuid) ==
  IF AccessDenied(user, scan_uuid) # Null THEN Val(AccessDenied(user, scan_uuid))
  ELSE IF Val(FindScan(scan_uuid)).status \in {RUNNING, PENDING} THEN [status_code |-> 400]
  ELSE [status_code |-> 200]

\* DELETE /api/scans/{uuid}
DeleteScan(callers) ==
  /\ \E user \in callers, scan_uuid \in ScanUuids :
       LET response == delete_scan(user, scan_uuid)
           deleted == IF response.status_code = 200 THEN {scan_uuid} ELSE {}
       IN /\ d_request' = [kind |-> "delete", user |-> user, uuids |-> {scan_uuid}]
          /\ d_response' = Some(response)
          /\ scan_exists' = (scan_exists /\ "S" \notin deleted)
          /\ prev_exists' = (prev_exists /\ "P" \notin deleted)
  /\ UNCHANGED <<now, scan, findings, targets, prev, kvvars, chanvars, ovars, svars, hvars,
                 wvars, gvars, lvars, cvars>>

\* bulk_delete_scans: the rows whose uuid is in the list; 403 at the first
\* row of another user, before the commit; otherwise every row is deleted
BulkScans(uuids) == { scan_uuid \in uuids : FindScan(scan_uuid) # Null }
bulk_delete_scans(user, uuids) ==
  IF \E scan_uuid \in BulkScans(uuids) : Val(FindScan(scan_uuid)).user_id # user
    THEN [status_code |-> 403]
  ELSE [status_code |-> 200]

\* POST /api/scans/bulk-delete
BulkDeleteScans(callers) ==
  /\ \E user \in callers, uuids \in SUBSET ScanUuids :
       LET response == bulk_delete_scans(user, uuids)
           deleted == IF response.status_code = 200 THEN BulkScans(uuids) ELSE {}
       IN /\ d_request' = [kind |-> "bulk-delete", user |-> user, uuids |-> uuids]
          /\ d_response' = Some(response)
          /\ scan_exists' = (scan_exists /\ "S" \notin deleted)
          /\ prev_exists' = (prev_exists /\ "P" \notin deleted)
  /\ UNCHANGED <<now, scan, findings, targets, prev, kvvars, chanvars, ovars, svars, hvars,
                 wvars, gvars, lvars, cvars>>

\* watch_scan after the row was deleted: update_scan_status returns False,
\* the query gives None and scan.started_at raises AttributeError, which
\* ends the task
WatchUpdateNoRow ==
  /\ w_pc = "update"
  /\ ~scan_exists
  /\ w_pc' = "done" /\ w_exit' = "raised"
  /\ UNCHANGED <<now, dbvars, kvvars, chanvars, ovars, svars, hvars, last_status,
                 last_message_time, current_status, started_at_iso, finished_at_iso,
                 db2_output, db2_result, db2_targets, gvars, lvars, cvars, dvars>>

\* the scan lifecycle, without clock and callback, in a run in which nmap
\* prints no line, while any user sends delete requests
NextDeletes ==
  \/ OrchestratorNext \/ ScannerQuietNext \/ WatcherLoopNext \/ WatchUpdateNoRow
  \/ DeleteScan(Users) \/ BulkDeleteScans(Users)
SpecDeletes == Init /\ [][NextDeletes]_vars

\* C40: a delete request, single or bulk, that names a scan whose DB status
\* is pending or running is rejected and leaves the row in place; no step
\* removes the row of such a scan, and the row exists while its watcher runs
LiveScan == scan_exists /\ scan.status \in {PENDING, RUNNING}
C40_NoDeleteOfLiveScan ==
  /\ [][LiveScan => scan_exists']_vars
  /\ [][((DeleteScan(Users) \/ BulkDeleteScans(Users)) /\ LiveScan /\ "S" \in d_request'.uuids)
          => Val(d_response').status_code # 200]_vars
  /\ [](w_pc \notin {"idle", "done"} => scan_exists)

====
